---- MODULE Spec2Model ----
(***************************************************************************)
(* A model of the depot package cache (github.com/a-h/depot):              *)
(*   - the Nix narinfo handler (nix/handlers/narinfo) over the KV store,   *)
(*   - the JWT-over-SSH authentication middleware (middleware/auth, auth), *)
(*   - the LoggedStorage decorator and its buffered access log.            *)
(* Strings are sequences of one-character strings, so that the path and    *)
(* text conversions are computed the way the Go code computes them.        *)
(***************************************************************************)
EXTENDS Integers, Sequences, FiniteSets, TLC

VARIABLES
    \* Nix narinfo handler
    privateKey,     \* Handler.privateKey: NoKey (nil) or a signing key
    nixKV,          \* the kv.Store rows the narinfo handler uses: URL path -> text
    nixResp,        \* the last narinfo request and its response
    nixCount,       \* number of narinfo requests served so far
    \* Authentication middleware
    authConfig,     \* Middleware.authConfig: NilConfig or the loaded AuthConfig
    authResp,       \* the last request seen by the middleware and its outcome
    \* LoggedStorage and its buffered access log
    ch,             \* LoggedStorage.c: the events buffered in the channel
    closed,         \* whether shutdown has closed the channel
    reqs,           \* per request goroutine: where it is in Stat, Get or Put
    consumerDone,   \* the consumer goroutine has left its loop (shutdownComplete)
    shutdownState,  \* "none", "waiting", "ok" or "timeout": the call of shutdown
    exited,         \* the process has ended: ServeCmd.Run returned, or a panic
    shutdownFault,  \* a further call of shutdown has panicked
    copyFailed,     \* history: per file, the Puts whose body copy or Close failed
    kvVersion,      \* version of each access-log key of the kv.Store
    accessLogErrors,\* the metric IncrementAccessLogErrors counts
    today,          \* the UTC day AccessLog.now falls on
    logOps,         \* number of storage operations started so far
    returnedOk,     \* history: Stat, Get and Put calls that returned no error, per file
    consumed,       \* history: events the consumer has taken from the channel
    putFailed,      \* history: consumed events whose KV Put returned an error
    \* AccessLog over the kv.Store, called from several goroutines
    alKV,           \* the version of each access-log key (0: no such row)
    alNow,          \* the UTC day AccessLog.now falls on
    alProcs,        \* per goroutine: idle, or inside store.Put with its key
    alPuts,         \* history: per key, the Puts that returned nil and those that failed
    alStats,        \* the result of the last AccessLog.Get
    alCalls,        \* number of AccessLog calls started so far
    alRaced,        \* history: keys on which two Puts were in flight at once
    \* storage.S3: the bucket, and one Put with its pipe and upload goroutine
    s3Objects,      \* per key of the bucket: whether an object exists, and its bytes
    s3Writer,       \* the caller's side of the pipe: pc, filename, bytes written
    s3Uploader,     \* the goroutine of Put: pc and the bytes read from the pipe
    s3Seen,         \* what the last Stat or Get returned, and when it ran
    s3Puts,         \* number of Puts started so far
    \* NPM adapter: version metadata in the kv.Store, tarballs in storage
    npmKV,          \* the record at /npm/{pkg}/{version} per version, or NoRecord
    npmTarballs,    \* the tarball paths written to storage
    npmResp,        \* the last NPM request and its response
    npmCount,       \* number of NPM requests served so far
    npmDirect,      \* history: a metadata PUT that was not part of a push has stored a record
    \* Python push: one run of Pusher.Push against a server
    pyDir,          \* the files of the directory, in the order Walk visits them
    pyBinaryFiles,  \* binaryFiles: collected by the walk, then still to push
    pyMetadataFiles, \* metadataFiles: collected by the walk, then still to push
    pyPc,           \* where Push is: walk, binaries, metadata, done, failed
    pyServer,       \* the paths the server has answered a PUT for with success
    \* handlers.Logger: one request through the logging middleware
    lgRw,           \* the loggingResponseWriter and the writer it wraps
    lgPc,           \* idle, handler (the next handler runs), done
    lgLog,          \* the level of the entry the deferred function logged
    lgCalls,        \* calls the handler has made on the writer
    lgRequests,     \* number of requests served so far
    \* narinfo requests running concurrently against the kv.Store
    ncKV,           \* the stored narinfo text per URL path (<<>>: none)
    ncProcs,        \* per PUT in flight: idle, or about to store its narinfo
    ncGot,          \* the last GET and its response
    ncWritten,      \* history: per path, the narinfos stored, in order
    ncRaced,        \* history: paths on which two PUTs were in flight at once
    ncPuts,         \* number of PUTs started so far
    \* npm save
    dlDeps,         \* the registry: the dependencies of every release
    dlPackages,     \* the packages Save was called with
    dlSlice,        \* the SliceIterator's slice
    dlI,            \* the iterator's index (from 1)
    dlSeen,         \* alreadySeen: the keys set so far
    dlTarballs,     \* storage: per release no file, a verified or a bad one
    dlMetadata,     \* storage: the packages whose metadata.json is there
    dlPc,           \* Save: run, done (nil) or failed (error)
    dlSaves,        \* number of Save calls so far
    dlCalls,        \* history: Download calls per spec in this Save
    dlFetched,      \* history: tarball transfers per release in this Save
    dlMismatched,   \* history: releases whose Download failed on the hash
    dlResult,       \* history: the release and result of the last Download
    \* Python simple index
    psKV,           \* the records of the kv.Store under /python/
    psStorage,      \* the distribution files in storage
    psPut,          \* history: file names whose metadata PUT succeeded
    psIndex,        \* the last GET /{pkg}/ and its answer
    psStatus,       \* the status of the last PUT
    psCount         \* number of PUTs so far

nixVars == <<privateKey, nixKV, nixResp, nixCount>>
authVars == <<authConfig, authResp>>
logVars == <<ch, closed, reqs, consumerDone, shutdownState, exited, shutdownFault, copyFailed, kvVersion,
             accessLogErrors, today, logOps, returnedOk, consumed, putFailed>>

alVars == <<alKV, alNow, alProcs, alPuts, alStats, alCalls, alRaced>>

s3Vars == <<s3Objects, s3Writer, s3Uploader, s3Seen, s3Puts>>
npmVars == <<npmKV, npmTarballs, npmResp, npmCount, npmDirect>>
pyVars == <<pyDir, pyBinaryFiles, pyMetadataFiles, pyPc, pyServer>>

lgVars == <<lgRw, lgPc, lgLog, lgCalls, lgRequests>>

ncVars == <<ncKV, ncProcs, ncGot, ncWritten, ncRaced, ncPuts>>

dlVars == <<dlDeps, dlPackages, dlSlice, dlI, dlSeen, dlTarballs, dlMetadata, dlPc, dlSaves, dlCalls, dlFetched, dlMismatched, dlResult>>

psVars == <<psKV, psStorage, psPut, psIndex, psStatus, psCount>>

\* What the actions of one subsystem leave alone in the others.
notNixVars == <<authVars, logVars, alVars, s3Vars, npmVars, pyVars, lgVars, ncVars, dlVars, psVars>>
notAuthVars == <<nixVars, logVars, alVars, s3Vars, npmVars, pyVars, lgVars, ncVars, dlVars, psVars>>
notLogVars == <<nixVars, authVars, alVars, s3Vars, npmVars, pyVars, lgVars, ncVars, dlVars, psVars>>
notAlVars == <<nixVars, authVars, logVars, s3Vars, npmVars, pyVars, lgVars, ncVars, dlVars, psVars>>
notS3Vars == <<nixVars, authVars, logVars, alVars, npmVars, pyVars, lgVars, ncVars, dlVars, psVars>>
notNpmVars == <<nixVars, authVars, logVars, alVars, s3Vars, pyVars, lgVars, ncVars, dlVars, psVars>>
notPyVars == <<nixVars, authVars, logVars, alVars, s3Vars, npmVars, lgVars, ncVars, dlVars, psVars>>
notLgVars == <<nixVars, authVars, logVars, alVars, s3Vars, npmVars, pyVars, ncVars, dlVars, psVars>>
notNcVars == <<nixVars, authVars, logVars, alVars, s3Vars, npmVars, pyVars, lgVars, dlVars, psVars>>
notDlVars == <<nixVars, authVars, logVars, alVars, s3Vars, npmVars, pyVars, lgVars, ncVars, psVars>>
notPsVars == <<nixVars, authVars, logVars, alVars, s3Vars, npmVars, pyVars, lgVars, ncVars, dlVars>>

vars == <<privateKey, nixKV, nixResp, nixCount, authConfig, authResp,
          ch, closed, reqs, consumerDone, shutdownState, exited, shutdownFault, copyFailed, kvVersion,
          accessLogErrors, today, logOps, returnedOk, consumed, putFailed,
          alKV, alNow, alProcs, alPuts, alStats, alCalls, alRaced,
          s3Objects, s3Writer, s3Uploader, s3Seen, s3Puts,
          npmKV, npmTarballs, npmResp, npmCount, npmDirect,
          pyDir, pyBinaryFiles, pyMetadataFiles, pyPc, pyServer,
          lgRw, lgPc, lgLog, lgCalls, lgRequests,
          ncKV, ncProcs, ncGot, ncWritten, ncRaced, ncPuts,
          dlDeps, dlPackages, dlSlice, dlI, dlSeen, dlTarballs, dlMetadata, dlPc, dlSaves, dlCalls, dlFetched, dlMismatched, dlResult,
          psKV, psStorage, psPut, psIndex, psStatus, psCount>>

-----------------------------------------------------------------------------
(* Go's strings and path/filepath helpers, on sequences of characters.      *)

\* strings.HasSuffix
HasSuffix(s, suffix) ==
    /\ Len(s) >= Len(suffix)
    /\ SubSeq(s, Len(s) - Len(suffix) + 1, Len(s)) = suffix

\* strings.TrimSuffix
TrimSuffix(s, suffix) ==
    IF HasSuffix(s, suffix) THEN SubSeq(s, 1, Len(s) - Len(suffix)) ELSE s

\* strings.HasPrefix
HasPrefix(s, prefix) ==
    /\ Len(s) >= Len(prefix)
    /\ SubSeq(s, 1, Len(prefix)) = prefix

\* strings.TrimPrefix
TrimPrefix(s, prefix) ==
    IF HasPrefix(s, prefix) THEN SubSeq(s, Len(prefix) + 1, Len(s)) ELSE s

\* strings.Index for a one-character separator: 0 when absent (Go: -1).
Index(s, c) ==
    LET hits == {i \in 1..Len(s) : s[i] = c}
    IN  IF hits = {} THEN 0 ELSE CHOOSE i \in hits : \A j \in hits : i <= j

\* strings.LastIndex for a one-character separator: 0 when absent.
LastIndex(s, c) ==
    LET hits == {i \in 1..Len(s) : s[i] = c}
    IN  IF hits = {} THEN 0 ELSE CHOOSE i \in hits : \A j \in hits : i >= j

\* strings.SplitN(s, sep, 2)[0]: everything before the first separator.
SplitN2First(s, c) ==
    IF Index(s, c) = 0 THEN s ELSE SubSeq(s, 1, Index(s, c) - 1)

\* strings.SplitN(s, sep, 2)[1], for a string that holds the separator.
SplitN2Rest(s, c) == SubSeq(s, Index(s, c) + 1, Len(s))

\* strings.Join(parts, sep)
RECURSIVE Join(_, _)
Join(parts, c) ==
    IF parts = <<>> THEN <<>>
    ELSE IF Len(parts) = 1 THEN parts[1]
    ELSE parts[1] \o <<c>> \o Join(Tail(parts), c)

\* strings.Split(s, sep) for a one-character separator.
RECURSIVE Split(_, _)
Split(s, c) ==
    IF Index(s, c) = 0 THEN <<s>>
    ELSE <<SubSeq(s, 1, Index(s, c) - 1)>> \o Split(SubSeq(s, Index(s, c) + 1, Len(s)), c)

\* The loop of filepath.Base that strips trailing path separators.
RECURSIVE StripTrailingSeparators(_)
StripTrailingSeparators(path) ==
    IF Len(path) > 0 /\ path[Len(path)] = "/"
    THEN StripTrailingSeparators(SubSeq(path, 1, Len(path) - 1))
    ELSE path

\* filepath.Base: the last element of path; "." for the empty path and "/"
\* for a path of separators only.
Base(path) ==
    IF path = <<>> THEN <<".">>
    ELSE LET p == StripTrailingSeparators(path)
             e == SubSeq(p, LastIndex(p, "/") + 1, Len(p))
         IN  IF e = <<>> THEN <<"/">> ELSE e

NarinfoSuffix == <<".", "n", "a", "r", "i", "n", "f", "o">>

NixStoreDir == <<"/", "n", "i", "x", "/", "s", "t", "o", "r", "e", "/">>

-----------------------------------------------------------------------------
(* The narinfo text format and its signatures (go-nix pkg/narinfo), as the  *)
(* handler uses them: a text is a sequence of "Key: Value" lines.           *)

Line(k, v) == [k |-> k, v |-> v]

NarInfoKeys == {"StorePath", "URL", "NarHash", "NarSize", "References", "Sig"}

\* An ed25519 signature by secret key k over msg (deterministic); its base64
\* form is a token sequence that starts with "sig".
Ed25519Sign(k, msg) == <<"sig", k>> \o msg

\* signature.Signature.String: {keyname}:{base64(signature)}
SignatureString(sig) == sig.Name \o <<":">> \o sig.Data

\* signature.ParseSignature succeeds: name and data split at the first ':',
\* and the data decodes to an ed25519 signature.
ParseSignatureOK(v) ==
    /\ Index(v, ":") > 0
    /\ Len(SplitN2Rest(v, ":")) > 0
    /\ SplitN2Rest(v, ":")[1] = "sig"

ParseSignature(v) == [Name |-> SplitN2First(v, ":"), Data |-> SplitN2Rest(v, ":")]

\* NarInfo.String: the fields in their fixed order, one Sig line per signature.
NarInfoString(ni) ==
    << Line("StorePath", ni.StorePath),
       Line("URL", ni.URL),
       Line("NarHash", ni.NarHash),
       Line("NarSize", ni.NarSize),
       Line("References", Join(ni.References, " ")) >>
    \o [i \in 1..Len(ni.Signatures) |-> Line("Sig", SignatureString(ni.Signatures[i]))]

\* narinfo.Parse returns no error: every line has a known key and every Sig
\* line parses as a signature.
ParseOK(text) ==
    \A i \in 1..Len(text) :
        /\ text[i].k \in NarInfoKeys
        /\ text[i].k = "Sig" => ParseSignatureOK(text[i].v)

\* The value of the last line with key k ("" when there is none).
FieldValue(text, k) ==
    LET hits == {i \in 1..Len(text) : text[i].k = k}
    IN  IF hits = {} THEN <<>>
        ELSE text[CHOOSE i \in hits : \A j \in hits : i >= j].v

IsSigLine(l) == l.k = "Sig"

\* narinfo.Parse: each line sets its field; Sig lines append, in order.
Parse(text) ==
    LET sigLines == SelectSeq(text, IsSigLine)
        refs     == FieldValue(text, "References")
    IN  [ StorePath  |-> FieldValue(text, "StorePath"),
          URL        |-> FieldValue(text, "URL"),
          NarHash    |-> FieldValue(text, "NarHash"),
          NarSize    |-> FieldValue(text, "NarSize"),
          References |-> IF refs = <<>> THEN <<>> ELSE Split(refs, " "),
          Signatures |-> [i \in 1..Len(sigLines) |-> ParseSignature(sigLines[i].v)] ]

\* NarInfo.Fingerprint: 1;StorePath;NarHash;NarSize;refs, the references
\* prefixed with the store directory and joined with commas.
Fingerprint(ni) ==
    <<"1", ";">> \o ni.StorePath \o <<";">> \o ni.NarHash \o <<";">> \o ni.NarSize
    \o <<";">> \o Join([i \in 1..Len(ni.References) |-> NixStoreDir \o ni.References[i]], ",")

\* signature.SecretKey.Sign
Sign(key, msg) == [Name |-> key.name, Data |-> Ed25519Sign(key.key, msg)]

\* signature.PublicKey.Verify: same key name, and the ed25519 check.
Verify(pub, msg, sig) ==
    /\ sig.Name = pub.name
    /\ sig.Data = Ed25519Sign(pub.key, msg)

NoKey == [name |-> <<>>, key |-> "nil"]
ServerKey == [name |-> <<"d">>, key |-> "sk"]
UpstreamKey == [name |-> <<"u">>, key |-> "uk"]

-----------------------------------------------------------------------------
(* nix/handlers/narinfo: Handler.Put, Handler.Get, Handler.ServeHTTP        *)

\* A faulty getHashPartFromStorePath that takes the whole base name.
getHashPartFromStorePath_WholeBase(storePath) == Base(storePath)

\* getHashPartFromStorePath: the base name up to its first '-'.
getHashPartFromStorePath(storePath) == SplitN2First(Base(storePath), "-")

\* expectedHashPart in Handler.Put.
expectedHashPart(urlPath) == TrimSuffix(Base(urlPath), NarinfoSuffix)

\* A faulty signing step that replaces the uploaded signatures by the server's.
PutSigned_Replace(key, ni) ==
    IF key /= NoKey
    THEN [ni EXCEPT !.Signatures = <<Sign(key, Fingerprint(ni))>>]
    ELSE ni

\* The narinfo Handler.Put stores: the parsed narinfo, with the server's
\* signature over its fingerprint appended when a private key is configured.
PutSigned(key, ni) ==
    IF key /= NoKey
    THEN [ni EXCEPT !.Signatures = Append(@, Sign(key, Fingerprint(ni)))]
    ELSE ni

\* The status code of Handler.Put.
PutStatus(key, urlPath, body, signErr, kvErr) ==
    IF ~ParseOK(body) THEN 400
    ELSE IF getHashPartFromStorePath(Parse(body).StorePath) /= expectedHashPart(urlPath) THEN 400
    ELSE IF key /= NoKey /\ signErr THEN 500
    ELSE IF kvErr THEN 500
    ELSE 201

\* db.PutNarInfo: the row is the narinfo's text, stored under the URL path.
\* A faulty store that adds the new record's text to the text already there.
PutNarInfo_Appends(kv, urlPath, ni) == [kv EXCEPT ![urlPath] = @ \o NarInfoString(ni)]

PutNarInfo(kv, urlPath, ni) == [kv EXCEPT ![urlPath] = NarInfoString(ni)]

NoResp == [method |-> "", path |-> <<>>, body |-> <<>>, status |-> 0, out |-> <<>>]

\* db.GetNarInfo and Handler.Get: the status code.
GetStatus(kv, urlPath, kvErr) ==
    IF kvErr THEN 500
    ELSE IF kv[urlPath] = <<>> THEN 404
    ELSE IF ~ParseOK(kv[urlPath]) THEN 500
    ELSE 200

\* Handler.Get: the body written on a hit is the re-parsed narinfo's String.
GetOutput(kv, urlPath) == NarInfoString(Parse(kv[urlPath]))

\* Bounds and inputs of the narinfo handler.
MaxNixRequests == 2

\* The URL paths the Nix handler routes to the narinfo handler end in
\* ".narinfo".
UrlPaths ==
    { <<"/", "a">> \o NarinfoSuffix,
      <<"/", "n", "p", "m", "/", "a">> \o NarinfoSuffix,
      <<"/", "a", "-", "x">> \o NarinfoSuffix,
      <<"/", "a", "b">> \o NarinfoSuffix }

StorePaths ==
    { NixStoreDir \o <<"a", "-", "x">>,
      NixStoreDir \o <<"a", "b", "-", "x">>,
      NixStoreDir \o <<"a", "-", "x", "/">>,
      <<"a", "-", "x", "-", "y">>,
      <<>> }

UploadedNarInfo(storePath) ==
    [ StorePath |-> storePath, URL |-> <<"n">>, NarHash |-> <<"h">>, NarSize |-> <<"7">>,
      References |-> << <<"r">>, <<"q">> >>, Signatures |-> <<>> ]

\* Signature lists a client may upload: none; an upstream cache's followed by
\* one that bears the server's key name but was made with another key; and
\* one made by the server's key (a narinfo fetched from this server before).
UploadedSignatures(ni) ==
    { <<>>,
      <<Sign(UpstreamKey, Fingerprint(ni)),
        [Name |-> ServerKey.name, Data |-> Ed25519Sign(UpstreamKey.key, Fingerprint(ni))]>>,
      <<Sign(ServerKey, Fingerprint(ni))>> }

WellFormedBodies ==
    { NarInfoString([UploadedNarInfo(sp[1]) EXCEPT !.Signatures = sp[2]]) :
        sp \in UNION {{<<p, sigs>> : sigs \in UploadedSignatures(UploadedNarInfo(p))} : p \in StorePaths} }

MalformedBodies ==
    { <<Line("Bogus", <<"x">>)>>,
      <<Line("StorePath", NixStoreDir \o <<"a", "-", "x">>), Line("Sig", <<"u", "x">>)>> }

Bodies == WellFormedBodies \cup MalformedBodies

\* What can go wrong inside a request: nothing, the signing, or the KV store.
Faults == {"none", "sign", "kv"}

-----------------------------------------------------------------------------
(* auth: AuthConfig, LoadAuthConfig, VerifyJWT; middleware/auth: Middleware *)

PermissionRead == "r"
PermissionReadWrite == "w"

\* SSH public keys: K1 (RSA) and K2 (ECDSA P-256) are JWT-signable, K3 is an
\* ed25519 key, K4 is an RSA key that is never put on the allowlist.
K1 == [id |-> "K1", type |-> "ssh-rsa"]
K2 == [id |-> "K2", type |-> "ecdsa-sha2-nistp256"]
K3 == [id |-> "K3", type |-> "ssh-ed25519"]
K4 == [id |-> "K4", type |-> "ssh-rsa"]
InvalidKey == [id |-> "", type |-> ""]
PublicKeys == {K1, K2, K3, K4}

\* ssh.FingerprintSHA256: injective on keys.
FingerprintSHA256(pub) == <<"SHA256", pub.id>>

NilConfig == [nil |-> TRUE, Keys |-> <<>>, RequireAuthForRead |-> FALSE]

\* A line of the auth file: blank or comment, too few fields, or
\* "<permission> <ssh public key>".
CommentLine == [kind |-> "skip", perm |-> "", key |-> InvalidKey]
ShortLine == [kind |-> "short", perm |-> "", key |-> InvalidKey]
EntryLine(perm, key) == [kind |-> "entry", perm |-> perm, key |-> key]

\* LoadAuthConfig returns no error: every line that is not skipped has three
\* fields, permission r or w, and a key that ssh.ParseAuthorizedKey accepts.
LoadAuthConfigOK(lines) ==
    \A i \in 1..Len(lines) :
        lines[i].kind /= "skip" =>
            /\ lines[i].kind = "entry"
            /\ lines[i].perm \in {PermissionRead, PermissionReadWrite}
            /\ lines[i].key /= InvalidKey

IsEntryLine(l) == l.kind = "entry"

\* A faulty LoadAuthConfig that never sets RequireAuthForRead.
LoadAuthConfig_ReadsOpen(lines) ==
    LET entries == SelectSeq(lines, IsEntryLine)
    IN  [ nil  |-> FALSE,
          Keys |-> [i \in 1..Len(entries) |->
                      [Permission |-> entries[i].perm, PublicKey |-> entries[i].key]],
          RequireAuthForRead |-> FALSE ]

\* LoadAuthConfig: the keys in file order; RequireAuthForRead is set as soon
\* as one line has permission r.
LoadAuthConfig(lines) ==
    LET entries == SelectSeq(lines, IsEntryLine)
    IN  [ nil  |-> FALSE,
          Keys |-> [i \in 1..Len(entries) |->
                      [Permission |-> entries[i].perm, PublicKey |-> entries[i].key]],
          RequireAuthForRead |-> \E i \in 1..Len(entries) : entries[i].perm = PermissionRead ]

\* The signing methods golang-jwt registers, by family.
RSAMethods == {"RS256", "RS384", "RS512"}
ECDSAMethods == {"ES256", "ES384", "ES512"}
RSAPSSMethods == {"PS256", "PS384", "PS512"}
HMACMethods == {"HS256", "HS384", "HS512"}
RegisteredMethods ==
    RSAMethods \cup ECDSAMethods \cup RSAPSSMethods \cup HMACMethods \cup {"EdDSA", "none"}

\* A faulty key function without the type switch on the signing method.
AcceptableSigningMethod_Any(alg) == TRUE

\* The type switch at the top of VerifyJWT's key function.
AcceptableSigningMethod(alg) == alg \in RSAMethods \cup ECDSAMethods

\* extractCryptoPublicKey: "rsa" or "ecdsa", or "" for an unsupported key type.
extractCryptoPublicKey(sshKey) ==
    IF sshKey.type = "ssh-rsa" THEN "rsa"
    ELSE IF sshKey.type \in {"ecdsa-sha2-nistp256", "ecdsa-sha2-nistp384", "ecdsa-sha2-nistp521"}
         THEN "ecdsa"
    ELSE ""

\* The index of the first allowlisted key with this fingerprint, 0 if none:
\* the loops of VerifyJWT and of Middleware.ServeHTTP.
FindKey(config, fingerprint) ==
    LET hits == {i \in 1..Len(config.Keys) :
                    FingerprintSHA256(config.Keys[i].PublicKey) = fingerprint}
    IN  IF hits = {} THEN 0 ELSE CHOOSE i \in hits : \A j \in hits : i <= j

\* SigningMethod.Verify of golang-jwt: the method needs a key of its own
\* kind, and the signature must have been made, with that method, by the
\* private key of the public key it is checked against.
MethodVerify(alg, cryptoKind, pub, token) ==
    /\ \/ alg \in RSAMethods \cup RSAPSSMethods /\ cryptoKind = "rsa"
       \/ alg \in ECDSAMethods /\ cryptoKind = "ecdsa"
    /\ token.signer = pub.id

\* The registered-claims validation of golang-jwt v5 with no parser options:
\* exp and nbf are checked when present, iat is not checked.
ClaimsValid(token, now) ==
    /\ token.hasExp => now < token.exp
    /\ token.hasNbf => now >= token.nbf

\* VerifyJWT returns no error.
VerifyJWTOK(token, config, now) ==
    /\ token.wellFormed
    /\ token.alg \in RegisteredMethods
    /\ AcceptableSigningMethod(token.alg)
    /\ FindKey(config, token.fp) /= 0
    /\ LET pub == config.Keys[FindKey(config, token.fp)].PublicKey
       IN  /\ extractCryptoPublicKey(pub) /= ""
           /\ MethodVerify(token.alg, extractCryptoPublicKey(pub), pub, token)
    /\ ClaimsValid(token, now)

\* VerifyJWT's result on success: claims.KeyFingerprint.
VerifyJWT(token) == token.fp

\* A faulty isWriteOperation that forgets DELETE.
isWriteOperation_NoDelete(method) == method \in {"PUT", "POST"}

isWriteOperation(method) == method \in {"PUT", "POST", "DELETE"}

\* A faulty first test that lets through only a missing auth config.
NoAuthConfigured_NilOnly(config) == config.nil

\* The first test of Middleware.ServeHTTP: no auth config, or one without keys.
NoAuthConfigured(config) == config.nil \/ Len(config.Keys) = 0

\* A faulty permission test that refuses nothing.
InsufficientPermission_Never(method, permission) == FALSE

\* The permission test of Middleware.ServeHTTP.
InsufficientPermission(method, permission) ==
    isWriteOperation(method) /\ permission /= PermissionReadWrite

\* The token the middleware verifies: the header without its "Bearer " prefix.
BearerToken(header) == header.token

\* Middleware.ServeHTTP: 0 when the request is passed to the next handler,
\* else the status the middleware answers with.
MiddlewareStatus(config, method, header, now) ==
    IF NoAuthConfigured(config) THEN 0
    ELSE IF ~isWriteOperation(method) /\ ~config.RequireAuthForRead THEN 0
    ELSE IF ~header.present THEN 401
    ELSE IF ~VerifyJWTOK(BearerToken(header), config, now) THEN 401
    ELSE IF FindKey(config, VerifyJWT(BearerToken(header))) = 0 THEN 401
    ELSE IF InsufficientPermission(method,
                config.Keys[FindKey(config, VerifyJWT(BearerToken(header)))].Permission)
         THEN 403
    ELSE 0

\* Time is counted in units of twelve hours; CreateJWT's 24 hours are two.
TokenLifetime == 2

RSAKeyTypes == {"ssh-rsa"}
ECDSAKeyTypes == {"ecdsa-sha2-nistp256", "ecdsa-sha2-nistp384", "ecdsa-sha2-nistp521"}

Token(alg, pub, signer, hasIat, iat, hasExp, exp, hasNbf, nbf) ==
    [ wellFormed |-> TRUE, alg |-> alg, fp |-> FingerprintSHA256(pub), signer |-> signer,
      hasIat |-> hasIat, iat |-> iat, hasExp |-> hasExp, exp |-> exp,
      hasNbf |-> hasNbf, nbf |-> nbf ]

\* CreateJWT succeeds for RSA and ECDSA keys only.
CreateJWTOK(key) == key.type \in RSAKeyTypes \cup ECDSAKeyTypes

\* CreateJWT at time now with the private key of pub: RS256 or ES256 by key
\* type, the key's fingerprint, iat = now and exp = now + 24 h.
CreateJWT(pub, now) ==
    Token(IF pub.type \in RSAKeyTypes THEN "RS256" ELSE "ES256",
          pub, pub.id, TRUE, now, TRUE, now + TokenLifetime, FALSE, 0)

\* A string that is no JWT (also what is left of the header "Bearer ").
MalformedToken ==
    [ wellFormed |-> FALSE, alg |-> "", fp |-> <<"", "">>, signer |-> "",
      hasIat |-> FALSE, iat |-> 0, hasExp |-> FALSE, exp |-> 0, hasNbf |-> FALSE, nbf |-> 0 ]

\* The moment at which the requests of the model arrive.
RequestTimes == {2}

TokenAlgs == {"RS256", "RS384", "ES256", "ES384", "PS256", "HS256", "EdDSA", "none", "XX"}

\* Tokens a client may present: those CreateJWT makes (fresh, and just
\* expired), tokens with every algorithm, claimed key and signer, and tokens
\* signed by K1 or K2 with every combination of iat, exp and nbf.
Tokens ==
    {CreateJWT(k, t) : k \in {x \in PublicKeys : CreateJWTOK(x)}, t \in {0, 1}}
    \cup { Token(alg, k, signer, TRUE, 1, TRUE, 3, FALSE, 0) :
             alg \in TokenAlgs, k \in PublicKeys, signer \in {"K1", "K2", "K3", "K4"} }
    \cup { Token(alg, k, k.id, hasIat, 1, exp /= 0, exp, nbf /= 0, nbf) :
             alg \in {"RS256"}, k \in {K1}, hasIat \in BOOLEAN,
             exp \in {0, 1, 2, 3, 4}, nbf \in {0, 2, 3} }
    \cup {MalformedToken}

NoHeader == [present |-> FALSE, bearer |-> FALSE, token |-> MalformedToken]

\* The Authorization header: absent, or a token with or without the prefix
\* "Bearer ", which the middleware trims before verifying.
Headers ==
    {NoHeader} \cup {[present |-> TRUE, bearer |-> b, token |-> t] : b \in BOOLEAN, t \in Tokens}

Methods == {"GET", "HEAD", "PUT", "POST", "DELETE"}

MaxAuthLines == 2

AuthFileLines ==
    {CommentLine, ShortLine, EntryLine("x", K1), EntryLine(PermissionRead, InvalidKey)}
    \cup {EntryLine(perm, k) : perm \in {PermissionRead, PermissionReadWrite}, k \in {K1, K2, K3}}

AuthFiles == UNION {[1..n -> AuthFileLines] : n \in 0..MaxAuthLines}

NoAuthResp == [method |-> "", header |-> NoHeader, now |-> 0, status |-> 0]

\* ServeCmd.Run: no auth file leaves authConfig nil; else LoadAuthConfig must
\* succeed for the server to start.
AuthInit ==
    /\ authConfig \in {NilConfig} \cup {LoadAuthConfig(f) : f \in {g \in AuthFiles : LoadAuthConfigOK(g)}}
    /\ authResp = NoAuthResp

\* Middleware.ServeHTTP on one request. The middleware keeps no state between
\* requests, so a behaviour serves one.
AuthServeHTTP ==
    /\ authResp = NoAuthResp
    /\ \E method \in Methods, header \in Headers, now \in RequestTimes :
         authResp' = [method |-> method, header |-> header, now |-> now,
                      status |-> MiddlewareStatus(authConfig, method, header, now)]
    /\ UNCHANGED authConfig
    /\ UNCHANGED notAuthVars

AuthNext == AuthServeHTTP

-----------------------------------------------------------------------------
(* loggedstorage: LoggedStorage, newBufferedAccessLog; accesslog: AccessLog *)

eventTypeRead == "read"
eventTypeWrite == "write"
eventTypeDelete == "delete"

newEvent(filename, t) == [Filename |-> filename, Type |-> t]

\* The event type Stat, Get and Put emit.
\* A faulty mapping under which a Put emits a read event.
EventTypeOf_AlwaysRead(op) == eventTypeRead

EventTypeOf(op) == IF op = "Put" THEN eventTypeWrite ELSE eventTypeRead

\* A faulty consumer that records every event as a read.
AccessLogOp_AlwaysRead(t) == "r"

\* The last path element of the key the consumer writes for an event:
\* AccessLog.Read for read events, AccessLog.Write for write and delete events.
AccessLogOp(t) == IF t = eventTypeRead THEN "r" ELSE "w"

\* path.Join("/accesslog", url.PathEscape(filename), day, op)
AccessLogKey(filename, day, op) == <<"accesslog", filename, day, op>>

\* Bounds of the logged-storage model. ChanCap stands for the buffer size.
ChanCap == 1
NumProcs == 2
MaxLogOps == 2
MaxDay == 1

Procs == 1..NumProcs
Files == {"fa", "fb"}
Days == 0..MaxDay
StorageOps == {"Stat", "Get", "Put"}
EventTypes == {eventTypeRead, eventTypeWrite}
Events == {newEvent(f, t) : f \in Files, t \in EventTypes}
\* Events of the third type the consumer's switch handles; Stat, Get and Put
\* send none.
DeleteEvents == {newEvent(f, eventTypeDelete) : f \in Files}
AnyEvents == Events \cup DeleteEvents
AccessLogKeys == {AccessLogKey(f, d, op) : f \in Files, d \in Days, op \in {"r", "w", "d"}}

\* A request goroutine: idle, about to send its event, parked on the full
\* channel, or ended by a panic.
IdleReq == [pc |-> "idle", op |-> "", event |-> newEvent("", ""), wasBlocked |-> FALSE]

LogInit ==
    /\ ch = <<>>
    /\ closed = FALSE
    /\ reqs = [p \in Procs |-> IdleReq]
    /\ consumerDone = FALSE
    /\ shutdownState = "none"
    /\ exited = FALSE
    /\ shutdownFault = FALSE
    /\ copyFailed = [f \in Files |-> 0]
    /\ kvVersion = [k \in AccessLogKeys |-> 0]
    /\ accessLogErrors = 0
    /\ today = 0
    /\ logOps = 0
    /\ returnedOk = [o \in Files \X StorageOps |-> 0]
    /\ consumed = [e \in AnyEvents |-> 0]
    /\ putFailed = [e \in AnyEvents |-> 0]

\* LoggedStorage.Stat, Get and Put up to the channel send: the wrapped call
\* returns an error, which is returned, or the goroutine goes on to send.
LsCall(p) ==
    /\ ~exited
    /\ reqs[p].pc = "idle"
    /\ logOps < MaxLogOps
    /\ logOps' = logOps + 1
    /\ \E op \in StorageOps, filename \in Files, err \in BOOLEAN :
         IF err
         THEN UNCHANGED reqs
         ELSE reqs' = [reqs EXCEPT ![p] =
                         [pc |-> "send", op |-> op,
                          event |-> newEvent(filename, EventTypeOf(op)), wasBlocked |-> FALSE]]
    /\ UNCHANGED <<ch, closed, consumerDone, shutdownState, exited, kvVersion, accessLogErrors,
                   today, returnedOk, consumed, putFailed>>
    /\ UNCHANGED <<shutdownFault, copyFailed, notLogVars>>

\* The send ls.c <- newEvent(...) finds the open channel full: the goroutine
\* parks on it.
LsBlock(p) ==
    /\ ~exited
    /\ reqs[p].pc = "send"
    /\ ~closed
    /\ Len(ch) = ChanCap
    /\ reqs' = [reqs EXCEPT ![p] = [reqs[p] EXCEPT !.pc = "blocked", !.wasBlocked = TRUE]]
    /\ UNCHANGED <<ch, closed, consumerDone, shutdownState, exited, kvVersion, accessLogErrors,
                   today, logOps, returnedOk, consumed, putFailed>>
    /\ UNCHANGED <<shutdownFault, copyFailed, notLogVars>>

\* The send ls.c <- newEvent(...) on the open channel: it proceeds only when
\* the buffer has room, and the operation then returns without error.
LsSend(p) ==
    /\ ~exited
    /\ reqs[p].pc \in {"send", "blocked"}
    /\ ~closed
    /\ Len(ch) < ChanCap
    /\ ch' = Append(ch, reqs[p].event)
    /\ reqs' = [reqs EXCEPT ![p] = IdleReq]
    /\ returnedOk' = [returnedOk EXCEPT ![<<reqs[p].event.Filename, reqs[p].op>>] = @ + 1]
    /\ UNCHANGED <<closed, consumerDone, shutdownState, exited, kvVersion, accessLogErrors,
                   today, logOps, consumed, putFailed>>
    /\ UNCHANGED <<shutdownFault, copyFailed, notLogVars>>

\* The send on the channel once shutdown has closed it, or a send parked on
\* the channel when shutdown closes it: Go panics with "send on closed
\* channel"; the operation does not return and its event is gone.
LsSendOnClosed(p) ==
    /\ ~exited
    /\ reqs[p].pc \in {"send", "blocked"}
    /\ closed
    /\ reqs' = [reqs EXCEPT ![p] = [reqs[p] EXCEPT !.pc = "panicked"]]
    /\ UNCHANGED <<ch, closed, consumerDone, shutdownState, exited, kvVersion, accessLogErrors,
                   today, logOps, returnedOk, consumed, putFailed>>
    /\ UNCHANGED <<shutdownFault, copyFailed, notLogVars>>

\* One round of the consumer's loop: receive an event, call AccessLog.Read or
\* AccessLog.Write, which Puts the key of the file, the current day and the
\* operation with expected version -1; an error is logged and counted.
Consume ==
    /\ ~exited
    /\ ~consumerDone
    /\ Len(ch) > 0
    /\ ch' = Tail(ch)
    /\ consumed' = [consumed EXCEPT ![Head(ch)] = @ + 1]
    /\ \E kvErr \in BOOLEAN :
         IF kvErr
         THEN /\ accessLogErrors' = accessLogErrors + 1
              /\ putFailed' = [putFailed EXCEPT ![Head(ch)] = @ + 1]
              /\ UNCHANGED kvVersion
         ELSE /\ kvVersion' = [kvVersion EXCEPT
                    ![AccessLogKey(Head(ch).Filename, today, AccessLogOp(Head(ch).Type))] = @ + 1]
              /\ UNCHANGED <<accessLogErrors, putFailed>>
    /\ UNCHANGED <<closed, reqs, consumerDone, shutdownState, exited, today, logOps,
                   returnedOk>>
    /\ UNCHANGED <<shutdownFault, copyFailed, notLogVars>>

\* A delete event arrives on the channel: a sender in the package hands the
\* consumer an event of type eventTypeDelete.
LsSendDelete ==
    /\ ~exited
    /\ ~closed
    /\ Len(ch) < ChanCap
    /\ logOps < MaxLogOps
    /\ logOps' = logOps + 1
    /\ \E e \in DeleteEvents : ch' = Append(ch, e)
    /\ UNCHANGED <<closed, reqs, consumerDone, shutdownState, exited, kvVersion,
                   accessLogErrors, today, returnedOk, consumed, putFailed>>
    /\ UNCHANGED <<shutdownFault, copyFailed, notLogVars>>

\* The consumer's range loop ends when the channel is closed and drained; the
\* deferred send signals shutdownComplete.
ConsumerExit ==
    /\ ~exited
    /\ ~consumerDone
    /\ closed
    /\ Len(ch) = 0
    /\ consumerDone' = TRUE
    /\ UNCHANGED <<ch, closed, reqs, shutdownState, exited, kvVersion, accessLogErrors,
                   today, logOps, returnedOk, consumed, putFailed>>
    /\ UNCHANGED <<shutdownFault, copyFailed, notLogVars>>

\* shutdown(timeout): close(c), then wait.
Shutdown ==
    /\ ~exited
    /\ shutdownState = "none"
    /\ closed' = TRUE
    /\ shutdownState' = "waiting"
    /\ UNCHANGED <<ch, reqs, consumerDone, exited, kvVersion, accessLogErrors,
                   today, logOps, returnedOk, consumed, putFailed>>
    /\ UNCHANGED <<shutdownFault, copyFailed, notLogVars>>

\* A faulty select that takes shutdownComplete without the consumer's signal.
ShutdownComplete_NoWait ==
    /\ ~exited
    /\ shutdownState = "waiting"
    /\ shutdownState' = "ok"
    /\ UNCHANGED <<ch, closed, reqs, consumerDone, exited, kvVersion, accessLogErrors,
                   today, logOps, returnedOk, consumed, putFailed>>
    /\ UNCHANGED <<shutdownFault, copyFailed, notLogVars>>

\* shutdown's select: shutdownComplete was signalled.
ShutdownComplete ==
    /\ ~exited
    /\ shutdownState = "waiting"
    /\ consumerDone
    /\ shutdownState' = "ok"
    /\ UNCHANGED <<ch, closed, reqs, consumerDone, exited, kvVersion, accessLogErrors,
                   today, logOps, returnedOk, consumed, putFailed>>
    /\ UNCHANGED <<shutdownFault, copyFailed, notLogVars>>

\* shutdown's select: the timer ticked first.
ShutdownTimeout ==
    /\ ~exited
    /\ shutdownState = "waiting"
    /\ shutdownState' = "timeout"
    /\ UNCHANGED <<ch, closed, reqs, consumerDone, exited, kvVersion, accessLogErrors,
                   today, logOps, returnedOk, consumed, putFailed>>
    /\ UNCHANGED <<shutdownFault, copyFailed, notLogVars>>

\* ServeCmd.Run returns after the shutdown call: the process ends, and with
\* it the consumer and every request goroutine.
ProcessExit ==
    /\ ~exited
    /\ shutdownState \in {"ok", "timeout"}
    /\ exited' = TRUE
    /\ UNCHANGED <<ch, closed, reqs, consumerDone, shutdownState, kvVersion, accessLogErrors,
                   today, logOps, returnedOk, consumed, putFailed>>
    /\ UNCHANGED <<shutdownFault, copyFailed, notLogVars>>

\* A further call of shutdown on the same instance, while the first waits or
\* after it has returned: close(c) on the closed channel panics with "close
\* of closed channel", which ends the process.
ShutdownAgain ==
    /\ ~exited
    /\ shutdownState /= "none"
    /\ shutdownFault' = TRUE
    /\ exited' = TRUE
    /\ UNCHANGED <<ch, closed, reqs, consumerDone, shutdownState, kvVersion, accessLogErrors,
                   today, logOps, returnedOk, consumed, putFailed, copyFailed>>
    /\ UNCHANGED notLogVars

\* The caller of a Put that returned a writer copies the body into it and
\* closes it: the copy or the Close fails.
LsCopyFails ==
    /\ ~exited
    /\ \E f \in Files :
         /\ returnedOk[<<f, "Put">>] > copyFailed[f]
         /\ copyFailed' = [copyFailed EXCEPT ![f] = @ + 1]
    /\ UNCHANGED <<ch, closed, reqs, consumerDone, shutdownState, exited, kvVersion,
                   accessLogErrors, today, logOps, returnedOk, consumed, putFailed>>
    /\ UNCHANGED <<shutdownFault, notLogVars>>

\* Midnight UTC passes.
Midnight ==
    /\ ~exited
    /\ today < MaxDay
    /\ today' = today + 1
    /\ UNCHANGED <<ch, closed, reqs, consumerDone, shutdownState, exited, kvVersion, accessLogErrors,
                   logOps, returnedOk, consumed, putFailed>>
    /\ UNCHANGED <<shutdownFault, copyFailed, notLogVars>>

LogNext ==
    \/ \E p \in Procs : LsCall(p)
    \/ \E p \in Procs : LsBlock(p)
    \/ \E p \in Procs : LsSend(p)
    \/ \E p \in Procs : LsSendOnClosed(p)
    \/ Consume
    \/ ConsumerExit
    \/ Shutdown
    \/ ShutdownComplete
    \/ ShutdownTimeout
    \/ ProcessExit
    \/ Midnight

-----------------------------------------------------------------------------
(* accesslog: AccessLog.Read, Write, Delete and Get over the kv.Store       *)

\* kv.Store.Put(key, expected, value) on a row of this version (0: no row):
\* expected -1 upserts, any other value must equal the row's version; a Put
\* that succeeds leaves the version one higher. The store applies a Put as
\* one statement.
\* A faulty store whose upsert writes the row afresh at version 1.
KVPut_SetsOne(version, expected) == 1

KVPut(version, expected) ==
    IF expected = -1 \/ expected = version THEN version + 1 ELSE version

\* The operations of the access log and the key suffix each writes.
AccessLogOps == {"Read", "Write", "Delete"}
KeySuffix(op) == IF op = "Read" THEN "r" ELSE IF op = "Write" THEN "w" ELSE "d"

\* kv.Store.GetPrefix(prefix, 0, -1) for the prefix of a file: the rows under
\* /accesslog/{file}/, ordered by key, that is by day and then by suffix.
RowsOfDay(kv, filename, day) ==
    SelectSeq(<<AccessLogKey(filename, day, "d"), AccessLogKey(filename, day, "r"),
                AccessLogKey(filename, day, "w")>>,
              LAMBDA k : kv[k] > 0)

RECURSIVE RowsFrom(_, _, _)
RowsFrom(kv, filename, day) ==
    IF day > MaxDay THEN <<>>
    ELSE RowsOfDay(kv, filename, day) \o RowsFrom(kv, filename, day + 1)

GetPrefix(kv, filename) == RowsFrom(kv, filename, 0)

\* The loop of AccessLog.Get: each row becomes a Count of its day and
\* version, appended to Reads, Writes or Deletes by the key's last element.
\* A faulty loop that appends every row to every list.
CountsOf_IgnoresSuffix(kv, rows, suffix) ==
    [i \in 1..Len(rows) |-> [Date |-> rows[i][3], Count |-> kv[rows[i]]]]

CountsOf(kv, rows, suffix) ==
    LET hits == SelectSeq(rows, LAMBDA k : k[4] = suffix)
    IN  [i \in 1..Len(hits) |-> [Date |-> hits[i][3], Count |-> kv[hits[i]]]]

AccessLogGet(kv, filename) ==
    LET rows == GetPrefix(kv, filename)
    IN  [ Filename |-> filename,
          ok       |-> Len(rows) > 0,
          Reads    |-> CountsOf(kv, rows, "r"),
          Writes   |-> CountsOf(kv, rows, "w"),
          Deletes  |-> CountsOf(kv, rows, "d") ]

\* Bounds of the access-log model.
NumAlProcs == 2
MaxAlCalls == 3

AlProcs == 1..NumAlProcs
NoKeyYet == <<"", "", 0, "">>
NoStats == [Filename |-> "", ok |-> FALSE, Reads |-> <<>>, Writes |-> <<>>, Deletes |-> <<>>]

AlInit ==
    /\ alKV = [k \in AccessLogKeys |-> 0]
    /\ alNow = 0
    /\ alProcs = [p \in AlProcs |-> [pc |-> "idle", key |-> NoKeyYet]]
    /\ alPuts = [k \in AccessLogKeys |-> [ok |-> 0, failed |-> 0]]
    /\ alStats = NoStats
    /\ alCalls = 0
    /\ alRaced = {}

\* AccessLog.Read, Write or Delete up to the call of store.Put: the key is
\* built from the file name and the day at this moment.
AlCall(p) ==
    /\ alProcs[p].pc = "idle"
    /\ alCalls < MaxAlCalls
    /\ alCalls' = alCalls + 1
    /\ \E op \in AccessLogOps, filename \in Files :
         LET key == AccessLogKey(filename, alNow, KeySuffix(op))
         IN  /\ alProcs' = [alProcs EXCEPT ![p] = [pc |-> "put", key |-> key]]
             /\ alRaced' = IF \E q \in AlProcs : alProcs[q].pc = "put" /\ alProcs[q].key = key
                           THEN alRaced \cup {key}
                           ELSE alRaced
    /\ UNCHANGED <<alKV, alNow, alPuts, alStats>>
    /\ UNCHANGED notAlVars

\* store.Put(ctx, key, -1, "") takes effect in the store and returns, or fails.
AlPut(p) ==
    /\ alProcs[p].pc = "put"
    /\ \E err \in BOOLEAN :
         LET key == alProcs[p].key
         IN  IF err
             THEN /\ alPuts' = [alPuts EXCEPT ![key].failed = @ + 1]
                  /\ UNCHANGED alKV
             ELSE /\ alKV' = [alKV EXCEPT ![key] = KVPut(@, -1)]
                  /\ alPuts' = [alPuts EXCEPT ![key].ok = @ + 1]
    /\ alProcs' = [alProcs EXCEPT ![p] = [pc |-> "idle", key |-> NoKeyYet]]
    /\ UNCHANGED <<alNow, alStats, alCalls, alRaced>>
    /\ UNCHANGED notAlVars

\* AccessLog.Get of a file.
AlGet ==
    /\ \E filename \in Files : alStats' = AccessLogGet(alKV, filename)
    /\ UNCHANGED <<alKV, alNow, alProcs, alPuts, alCalls, alRaced>>
    /\ UNCHANGED notAlVars

\* Midnight UTC passes for AccessLog.now.
AlMidnight ==
    /\ alNow < MaxDay
    /\ alNow' = alNow + 1
    /\ UNCHANGED <<alKV, alProcs, alPuts, alStats, alCalls, alRaced>>
    /\ UNCHANGED notAlVars

AlNext ==
    \/ \E p \in AlProcs : AlCall(p)
    \/ \E p \in AlProcs : AlPut(p)
    \/ AlGet
    \/ AlMidnight

AlIdle == AlInit

-----------------------------------------------------------------------------
(* storage.S3: Put through an io.Pipe and an upload goroutine, Stat and Get *)

\* Bounds of the storage model.
MaxS3Puts == 2
MaxS3Writes == 2

S3Bytes == {"x", "y"}
NoWriter == [pc |-> "none", filename |-> "", written |-> <<>>]
NoUploader == [pc |-> "none", body |-> <<>>]
NothingSeen == [op |-> "", filename |-> "", exists |-> FALSE, size |-> 0,
                content |-> <<>>, afterClose |-> FALSE, written |-> <<>>]

S3Init ==
    /\ s3Objects = [f \in Files |-> [exists |-> FALSE, bytes |-> <<>>]]
    /\ s3Writer = NoWriter
    /\ s3Uploader = NoUploader
    /\ s3Seen = NothingSeen
    /\ s3Puts = 0

\* S3.Put: makes the pipe, starts the goroutine that uploads from its read
\* end, and returns the write end.
S3Put ==
    /\ s3Writer.pc \in {"none", "closed"}
    /\ s3Uploader.pc \in {"none", "done", "failed"}
    /\ s3Puts < MaxS3Puts
    /\ s3Puts' = s3Puts + 1
    /\ \E f \in Files : s3Writer' = [pc |-> "open", filename |-> f, written |-> <<>>]
    /\ s3Uploader' = [pc |-> "reading", body |-> <<>>]
    /\ UNCHANGED <<s3Objects, s3Seen>>
    /\ UNCHANGED notS3Vars

\* w.Write on the pipe: returns once the uploader has read the bytes, or
\* returns the error the uploader closed the read end with.
S3Write ==
    /\ s3Writer.pc = "open"
    /\ Len(s3Writer.written) < MaxS3Writes
    /\ IF s3Uploader.pc = "failed"
       THEN /\ s3Writer' = [s3Writer EXCEPT !.pc = "failed"]
            /\ UNCHANGED s3Uploader
       ELSE \E b \in S3Bytes :
              /\ s3Writer' = [s3Writer EXCEPT !.written = Append(@, b)]
              /\ s3Uploader' = [s3Uploader EXCEPT !.body = Append(@, b)]
    /\ UNCHANGED <<s3Objects, s3Seen, s3Puts>>
    /\ UNCHANGED notS3Vars

\* w.Close on the pipe's write end: marks the pipe closed for the reader and
\* returns nil.
S3Close ==
    /\ s3Writer.pc \in {"open", "failed"}
    /\ s3Writer' = [s3Writer EXCEPT !.pc = "closed"]
    /\ UNCHANGED <<s3Objects, s3Uploader, s3Seen, s3Puts>>
    /\ UNCHANGED notS3Vars

\* The goroutine's UploadObject: fails at any time and closes the read end
\* with the error, or reads EOF after the writer closed and stores the object.
S3Upload ==
    /\ s3Uploader.pc = "reading"
    /\ \E err \in BOOLEAN :
         IF err
         THEN /\ s3Uploader' = [s3Uploader EXCEPT !.pc = "failed"]
              /\ UNCHANGED s3Objects
         ELSE /\ s3Writer.pc = "closed"
              /\ s3Uploader' = [s3Uploader EXCEPT !.pc = "done"]
              /\ s3Objects' = [s3Objects EXCEPT ![s3Writer.filename] =
                                  [exists |-> TRUE, bytes |-> s3Uploader.body]]
    /\ UNCHANGED <<s3Writer, s3Seen, s3Puts>>
    /\ UNCHANGED notS3Vars

\* What a Stat or Get of a file returns, with the moment it ran: after the
\* Close of a writer for that file or not.
S3Observe(op, f) ==
    [op |-> op, filename |-> f,
     exists |-> s3Objects[f].exists,
     size |-> Len(s3Objects[f].bytes),
     content |-> IF op = "Get" THEN s3Objects[f].bytes ELSE <<>>,
     afterClose |-> s3Writer.pc = "closed" /\ s3Writer.filename = f,
     written |-> IF s3Writer.filename = f THEN s3Writer.written ELSE <<>>]

\* S3.Stat: HeadObject.
S3Stat ==
    /\ \E f \in Files : s3Seen' = S3Observe("Stat", f)
    /\ UNCHANGED <<s3Objects, s3Writer, s3Uploader, s3Puts>>
    /\ UNCHANGED notS3Vars

\* S3.Get: GetObject.
S3Get ==
    /\ \E f \in Files : s3Seen' = S3Observe("Get", f)
    /\ UNCHANGED <<s3Objects, s3Writer, s3Uploader, s3Puts>>
    /\ UNCHANGED notS3Vars

S3Next == S3Put \/ S3Write \/ S3Close \/ S3Upload \/ S3Stat \/ S3Get

S3Idle == S3Init

-----------------------------------------------------------------------------
(* NPM adapter: DB.GetPackage, the metadata handler and the tarball handler *)

\* A version string as its bytes: decimal numbers joined by dots.
Decimal(n) == IF n < 10 THEN <<48 + n>> ELSE <<48 + (n \div 10), 48 + (n % 10)>>
VersionString(t) == Decimal(t[1]) \o <<46>> \o Decimal(t[2]) \o <<46>> \o Decimal(t[3])
LatestTag == <<108, 97, 116, 101, 115, 116>>

\* The order of keys in the store: byte-wise comparison of strings.
RECURSIVE KeyLess(_, _)
KeyLess(a, b) ==
    IF b = <<>> THEN FALSE
    ELSE IF a = <<>> THEN TRUE
    ELSE IF Head(a) /= Head(b) THEN Head(a) < Head(b)
    ELSE KeyLess(Tail(a), Tail(b))

\* Bounds of the NPM model.
MaxNpmRequests == 3

SemVers == {<<1, 9, 0>>, <<1, 10, 0>>, <<2, 0, 0>>}
NpmVersions == {VersionString(t) : t \in SemVers} \cup {LatestTag}
NpmPackages == {"pkg", "other"}
NoRecord == [Name |-> "", Version |-> <<>>]
NpmRecords == {[Name |-> n, Version |-> v] : n \in NpmPackages, v \in {VersionString(<<1, 9, 0>>), VersionString(<<2, 0, 0>>)}}
NoNpmResp == [route |-> "", method |-> "", status |-> 0, latest |-> <<>>, versions |-> {}]

\* store.GetPrefix("/npm/{pkg}/", 0, -1): the versions with a record, in key
\* order.
RECURSIVE NpmGetPrefix(_, _)
NpmGetPrefix(kv, left) ==
    LET present == {v \in left : kv[v] /= NoRecord}
    IN  IF present = {} THEN <<>>
        ELSE LET first == CHOOSE v \in present : \A u \in present \ {v} : KeyLess(u, v) = FALSE
             IN  <<first>> \o NpmGetPrefix(kv, present \ {first})

\* DB.GetPackage: every record read becomes a version, and the version of
\* the last record read is the latest dist-tag. getErr: store.Get fails on
\* the records, which the loop skips.
GetPackage(kv, getErr) ==
    LET records == NpmGetPrefix(kv, NpmVersions)
    IN  [ok |-> records /= <<>> /\ ~getErr,
         versions |-> IF getErr THEN {} ELSE {records[i] : i \in 1..Len(records)},
         latest |-> IF records = <<>> \/ getErr THEN <<>> ELSE records[Len(records)]]

NpmInit ==
    /\ npmKV = [v \in NpmVersions |-> NoRecord]
    /\ npmTarballs = {}
    /\ npmResp = NoNpmResp
    /\ npmCount = 0
    /\ npmDirect = FALSE

\* metadata Handler.Put of /pkg/{version}, or of /pkg without a version.
MetadataPut ==
    /\ npmCount < MaxNpmRequests
    /\ npmCount' = npmCount + 1
    /\ \E version \in NpmVersions \cup {<<>>}, body \in NpmRecords \cup {NoRecord}, kvErr \in BOOLEAN :
         LET status == IF version = <<>> THEN 405
                       ELSE IF body = NoRecord THEN 400
                       ELSE IF body.Name /= "pkg" THEN 400
                       ELSE IF kvErr THEN 500
                       ELSE 201
         IN  /\ npmKV' = IF status = 201 THEN [npmKV EXCEPT ![version] = body] ELSE npmKV
             /\ npmDirect' = (npmDirect \/ status = 201)
             /\ npmResp' = [route |-> "version", method |-> "PUT", status |-> status,
                            latest |-> <<>>, versions |-> {}]
    /\ UNCHANGED npmTarballs
    /\ UNCHANGED notNpmVars

\* tarball Handler.Put of /pkg/-/{file}, or of a path with a single element.
TarballPut ==
    /\ npmCount < MaxNpmRequests
    /\ npmCount' = npmCount + 1
    /\ \E parts \in {1, 3}, storageErr \in BOOLEAN :
         LET status == IF parts < 2 THEN 400
                       ELSE IF storageErr THEN 500
                       ELSE 200
         IN  /\ npmTarballs' = IF status = 200 THEN npmTarballs \cup {"pkg/-/pkg.tgz"} ELSE npmTarballs
             /\ npmResp' = [route |-> "tarball", method |-> "PUT", status |-> status,
                            latest |-> <<>>, versions |-> {}]
    /\ UNCHANGED <<npmKV, npmDirect>>
    /\ UNCHANGED notNpmVars

\* metadata Handler.Get of /pkg: the aggregated document of DB.GetPackage.
MetadataGet ==
    /\ npmCount < MaxNpmRequests
    /\ npmCount' = npmCount + 1
    /\ \E prefixErr \in BOOLEAN, getErr \in BOOLEAN :
         LET doc == GetPackage(npmKV, getErr)
             status == IF prefixErr THEN 500 ELSE IF ~doc.ok THEN 404 ELSE 200
         IN  npmResp' = [route |-> "package", method |-> "GET", status |-> status,
                         latest |-> IF status = 200 THEN doc.latest ELSE <<>>,
                         versions |-> IF status = 200 THEN doc.versions ELSE {}]
    /\ UNCHANGED <<npmKV, npmTarballs, npmDirect>>
    /\ UNCHANGED notNpmVars

\* Pusher.pushVersion: PUT the tarball, then PUT the version's record to
\* /npm/{name}/{tag} for every dist-tag of the version and to
\* /npm/{name}/{version}; the first PUT that fails ends the push.
PushVersion ==
    /\ npmCount < MaxNpmRequests
    /\ npmCount' = npmCount + 1
    /\ \E versionInfo \in {r \in NpmRecords : r.Name = "pkg"}, distTags \in SUBSET {LatestTag}, failsAt \in 0..3 :
         LET tagsForVersion == (IF LatestTag \in distTags THEN <<LatestTag>> ELSE <<>>)
                                   \o <<versionInfo.Version>>
             stored == {tagsForVersion[i] : i \in {j \in 1..Len(tagsForVersion) : j < failsAt}}
         IN  /\ npmTarballs' = IF failsAt = 0 THEN npmTarballs ELSE npmTarballs \cup {"pkg/-/pkg.tgz"}
             /\ npmKV' = [v \in NpmVersions |-> IF v \in stored THEN versionInfo ELSE npmKV[v]]
             /\ npmResp' = [route |-> "push", method |-> "PUT",
                            status |-> IF failsAt <= Len(tagsForVersion) THEN 500 ELSE 201,
                            latest |-> <<>>, versions |-> {}]
    /\ UNCHANGED npmDirect
    /\ UNCHANGED notNpmVars

NpmNext == MetadataPut \/ TarballPut \/ MetadataGet \/ PushVersion

NpmIdle == NpmInit

-----------------------------------------------------------------------------
(* Python push: Pusher.Push and pushFiles                                   *)

\* A file name is the sequence of its parts between the dots; filepath.Ext is
\* the last part, and an extension is the sequence of the parts it has.
Ext(name) == IF Len(name) < 2 THEN <<>> ELSE <<name[Len(name)]>>
IsJSON(name) == Len(name) >= 2 /\ name[Len(name)] = "json"
binaryExtensions == {<<"gz">>, <<"tar", "gz">>, <<"whl">>, <<"zip">>}

\* The distribution files a directory can hold, each followed by its
\* metadata file {name}.json, in the order of filepath.Walk.
Distributions == << <<"a", "tar", "bz2">>, <<"b", "tar", "gz">>, <<"c", "whl">>, <<"d", "zip">> >>
MetadataOf(name) == name \o <<"json">>

RECURSIVE DirOf(_, _)
DirOf(chosen, i) ==
    IF i > Len(Distributions) THEN <<>>
    ELSE (IF i \in chosen THEN <<Distributions[i], MetadataOf(Distributions[i])>> ELSE <<>>)
         \o DirOf(chosen, i + 1)

PyInit ==
    /\ pyDir \in {DirOf(chosen, 1) : chosen \in SUBSET (1..Len(Distributions))}
    /\ pyBinaryFiles = <<>>
    /\ pyMetadataFiles = <<>>
    /\ pyPc = "walk"
    /\ pyServer = {}

\* Push up to the end of filepath.Walk: names ending in .json are metadata
\* files, names whose Ext is a binary extension are binary files.
PyWalk ==
    /\ pyPc = "walk"
    /\ pyMetadataFiles' = SelectSeq(pyDir, IsJSON)
    /\ pyBinaryFiles' = SelectSeq(pyDir, LAMBDA name : ~IsJSON(name) /\ Ext(name) \in binaryExtensions)
    /\ pyPc' = "binaries"
    /\ UNCHANGED <<pyDir, pyServer>>
    /\ UNCHANGED notPyVars

\* pushFiles(binaryFiles): PUT of the next file, or the end of the list; a
\* PUT that fails ends Push with an error.
PyPushBinary ==
    /\ pyPc = "binaries"
    /\ IF pyBinaryFiles = <<>>
       THEN /\ pyPc' = "metadata"
            /\ UNCHANGED <<pyBinaryFiles, pyServer>>
       ELSE \E ok \in BOOLEAN :
              /\ pyBinaryFiles' = Tail(pyBinaryFiles)
              /\ pyServer' = IF ok THEN pyServer \cup {Head(pyBinaryFiles)} ELSE pyServer
              /\ pyPc' = IF ok THEN "binaries" ELSE "failed"
    /\ UNCHANGED <<pyDir, pyMetadataFiles>>
    /\ UNCHANGED notPyVars

\* pushFiles(metadataFiles): the same for the metadata files.
PyPushMetadata ==
    /\ pyPc = "metadata"
    /\ IF pyMetadataFiles = <<>>
       THEN /\ pyPc' = "done"
            /\ UNCHANGED <<pyMetadataFiles, pyServer>>
       ELSE \E ok \in BOOLEAN :
              /\ pyMetadataFiles' = Tail(pyMetadataFiles)
              /\ pyServer' = IF ok THEN pyServer \cup {Head(pyMetadataFiles)} ELSE pyServer
              /\ pyPc' = IF ok THEN "metadata" ELSE "failed"
    /\ UNCHANGED <<pyDir, pyBinaryFiles>>
    /\ UNCHANGED notPyVars

PyNext == PyWalk \/ PyPushBinary \/ PyPushMetadata

PyIdle ==
    /\ pyDir = <<>>
    /\ pyBinaryFiles = <<>>
    /\ pyMetadataFiles = <<>>
    /\ pyPc = "walk"
    /\ pyServer = {}

-----------------------------------------------------------------------------
(* handlers.Logger: the logging middleware and its loggingResponseWriter    *)

\* The state of one response: the fields of the loggingResponseWriter, and
\* the wrapped http.ResponseWriter (whether its header has gone out, with
\* which status, the body chunks written, and the WriteHeader calls that
\* reached it after its header had gone out).
NewResponse ==
    [status |-> 0, size |-> 0, headerWritten |-> FALSE,
     wireStarted |-> FALSE, wireStatus |-> 0, wireBody |-> <<>>, lateWriteHeader |-> 0]

\* loggingResponseWriter.WriteHeader.
LrwWriteHeader(rw, code) ==
    IF rw.headerWritten THEN rw
    ELSE [rw EXCEPT !.status = code,
                    !.headerWritten = TRUE,
                    !.wireStarted = TRUE,
                    !.wireStatus = IF rw.wireStarted THEN @ ELSE code,
                    !.lateWriteHeader = IF rw.wireStarted THEN @ + 1 ELSE @]

\* loggingResponseWriter.Write: the wrapped writer sends its header with 200
\* when none has gone out yet.
LrwWrite(rw, b) ==
    [rw EXCEPT !.status = IF @ = 0 THEN 200 ELSE @,
               !.size = @ + 1,
               !.wireStarted = TRUE,
               !.wireStatus = IF rw.wireStarted THEN @ ELSE 200,
               !.wireBody = Append(@, b)]

\* http.Error(lrw, "internal server error", 500).
HttpError500(rw) == LrwWrite(LrwWriteHeader(rw, 500), "internal server error")

\* Bounds of the middleware model.
MaxHandlerCalls == 3
MaxLoggerRequests == 2

HandlerCodes == {200, 404}
HandlerChunks == {"a", "b"}

LgInit ==
    /\ lgRw = NewResponse
    /\ lgPc = "idle"
    /\ lgLog = ""
    /\ lgCalls = 0
    /\ lgRequests = 0

\* Logger.ServeHTTP up to the call of the next handler.
LgServe ==
    /\ lgPc \in {"idle", "done"}
    /\ lgRequests < MaxLoggerRequests
    /\ lgRequests' = lgRequests + 1
    /\ lgRw' = NewResponse
    /\ lgPc' = "handler"
    /\ lgLog' = ""
    /\ lgCalls' = 0
    /\ UNCHANGED notLgVars

\* The handler calls WriteHeader on the writer it was given.
LgHandlerWriteHeader ==
    /\ lgPc = "handler"
    /\ lgCalls < MaxHandlerCalls
    /\ lgCalls' = lgCalls + 1
    /\ \E code \in HandlerCodes : lgRw' = LrwWriteHeader(lgRw, code)
    /\ UNCHANGED <<lgPc, lgLog, lgRequests>>
    /\ UNCHANGED notLgVars

\* The handler calls Write on the writer it was given.
LgHandlerWrite ==
    /\ lgPc = "handler"
    /\ lgCalls < MaxHandlerCalls
    /\ lgCalls' = lgCalls + 1
    /\ \E b \in HandlerChunks : lgRw' = LrwWrite(lgRw, b)
    /\ UNCHANGED <<lgPc, lgLog, lgRequests>>
    /\ UNCHANGED notLgVars

\* The handler returns: the deferred function logs the request at info.
LgReturn ==
    /\ lgPc = "handler"
    /\ lgPc' = "done"
    /\ lgLog' = "info"
    /\ UNCHANGED <<lgRw, lgCalls, lgRequests>>
    /\ UNCHANGED notLgVars

\* The handler panics: the deferred function recovers, logs an error and
\* calls http.Error unless headerWritten is set.
LgPanic ==
    /\ lgPc = "handler"
    /\ lgPc' = "done"
    /\ lgLog' = "error"
    /\ lgRw' = IF lgRw.headerWritten THEN lgRw ELSE HttpError500(lgRw)
    /\ UNCHANGED <<lgCalls, lgRequests>>
    /\ UNCHANGED notLgVars

LgNext == LgServe \/ LgHandlerWriteHeader \/ LgHandlerWrite \/ LgReturn \/ LgPanic

LgIdle == LgInit

-----------------------------------------------------------------------------
(* narinfo Handler.Put and Handler.Get running concurrently                 *)

\* Bounds of the concurrent narinfo model.
NumPutProcs == 2
MaxNcPuts == 2

PutProcs == 1..NumPutProcs
IdlePut == [pc |-> "idle", path |-> <<>>, ni |-> UploadedNarInfo(<<>>)]
NoGet == [path |-> <<>>, status |-> 0, out |-> <<>>]

NcInit ==
    /\ ncKV = [p \in UrlPaths |-> <<>>]
    /\ ncProcs = [p \in PutProcs |-> IdlePut]
    /\ ncGot = NoGet
    /\ ncWritten = [p \in UrlPaths |-> <<>>]
    /\ ncRaced = {}
    /\ ncPuts = 0

\* Handler.Put up to the call of db.PutNarInfo: parse, compare the hash
\* parts, sign. A request that fails here is answered and changes nothing.
NcPutStart(p) ==
    /\ ncProcs[p].pc = "idle"
    /\ ncPuts < MaxNcPuts
    /\ ncPuts' = ncPuts + 1
    /\ \E urlPath \in UrlPaths, body \in Bodies, signErr \in BOOLEAN :
         IF PutStatus(ServerKey, urlPath, body, signErr, FALSE) = 201
         THEN /\ ncProcs' = [ncProcs EXCEPT ![p] =
                                [pc |-> "store", path |-> urlPath,
                                 ni |-> PutSigned(ServerKey, Parse(body))]]
              /\ ncRaced' = IF \E q \in PutProcs : ncProcs[q].pc = "store" /\ ncProcs[q].path = urlPath
                            THEN ncRaced \cup {urlPath}
                            ELSE ncRaced
         ELSE UNCHANGED <<ncProcs, ncRaced>>
    /\ UNCHANGED <<ncKV, ncGot, ncWritten>>
    /\ UNCHANGED notNcVars

\* db.PutNarInfo: store.Put(ctx, narinfoPath, -1, record) takes effect, or
\* fails and the request is answered 500.
NcPutStore(p) ==
    /\ ncProcs[p].pc = "store"
    /\ \E kvErr \in BOOLEAN :
         IF kvErr
         THEN UNCHANGED <<ncKV, ncWritten>>
         ELSE /\ ncKV' = PutNarInfo(ncKV, ncProcs[p].path, ncProcs[p].ni)
              /\ ncWritten' = [ncWritten EXCEPT ![ncProcs[p].path] = Append(@, ncProcs[p].ni)]
    /\ ncProcs' = [ncProcs EXCEPT ![p] = IdlePut]
    /\ UNCHANGED <<ncGot, ncRaced, ncPuts>>
    /\ UNCHANGED notNcVars

\* Handler.Get: db.GetNarInfo reads the record and parses it.
NcGet ==
    /\ \E urlPath \in UrlPaths, kvErr \in BOOLEAN :
         LET status == GetStatus(ncKV, urlPath, kvErr)
         IN  ncGot' = [path |-> urlPath, status |-> status,
                       out |-> IF status = 200 THEN GetOutput(ncKV, urlPath) ELSE <<>>]
    /\ UNCHANGED <<ncKV, ncProcs, ncWritten, ncRaced, ncPuts>>
    /\ UNCHANGED notNcVars

NcNext ==
    \/ \E p \in PutProcs : NcPutStart(p)
    \/ \E p \in PutProcs : NcPutStore(p)
    \/ NcGet

NcIdle == NcInit

-----------------------------------------------------------------------------
(* npm save: Saver.Save walking the dependencies with Downloader.Download   *)

\* Bounds of the save model.
MaxDeps == 1
MaxPackages == 2
MaxSaves == 2

\* The upstream registry: the packages and the versions it lists.
DlNames == {"a", "b"}
RegistryVersions == [n \in DlNames |-> IF n = "a" THEN {"1.0.0"} ELSE {"2.0.0"}]
DistTagLatest == [n \in DlNames |-> IF n = "a" THEN "1.0.0" ELSE "2.0.0"]
NoVersion == ""
AliasVersion == "npm:c@1.0.0"
DlConstraints == {"1.0.0", "latest"}

PackageSpecs == [Name : DlNames, Version : DlConstraints]
DepSpecs == [Name : DlNames, Version : DlConstraints \cup {AliasVersion}]
Releases == {r \in [Name : DlNames, Version : {"1.0.0", "2.0.0"}] : r.Version \in RegistryVersions[r.Name]}

\* A version's dependencies are a map from name to version constraint.
DepMaps ==
    {d \in SUBSET DepSpecs :
        /\ Cardinality(d) <= MaxDeps
        /\ \A x, y \in d : x.Name = y.Name => x = y}

PackageLists == UNION {[1..n -> PackageSpecs] : n \in 0..MaxPackages}

\* PackageSpec.String: the key of the seen set.
SpecString(pkg) ==
    IF pkg.Version = "" THEN <<pkg.Name>> ELSE <<pkg.Name, "@", pkg.Version>>

\* A walk that never finds a package in the seen set.
AlreadySeen_Never(seen, pkg) == FALSE

\* alreadySeen[spec.String()]
AlreadySeen(seen, pkg) == SpecString(pkg) \in seen

\* Downloader.findVersion: a dist-tag names its version, any other
\* constraint the version that satisfies it.
findVersion(name, versionConstraint) ==
    IF versionConstraint = "latest" THEN DistTagLatest[name]
    ELSE IF versionConstraint \in RegistryVersions[name] THEN versionConstraint
    ELSE NoVersion

\* The orders in which a range over a Go map can yield its entries.
Orderings(S) ==
    {s \in [1..Cardinality(S) -> S] : \A x \in S : \E i \in 1..Cardinality(S) : s[i] = x}

IsAlias(d) == d.Version = AliasVersion

\* What one GET of a tarball can end in.
TarballOutcomes == {"ok", "httpErr", "copyErr", "mismatch"}

NoDownload == [release |-> [Name |-> "", Version |-> NoVersion], ok |-> FALSE]

StartOf(packages) == IF packages = <<>> THEN "failed" ELSE "run"

DlInit ==
    /\ dlDeps \in [Releases -> DepMaps]
    /\ dlPackages \in PackageLists
    /\ dlSlice = dlPackages
    /\ dlI = 1
    /\ dlSeen = {}
    /\ dlTarballs = [r \in Releases |-> "none"]
    /\ dlMetadata = {}
    /\ dlPc = StartOf(dlPackages)
    /\ dlSaves = 1
    /\ dlCalls = [p \in PackageSpecs \cup DepSpecs |-> 0]
    /\ dlFetched = [r \in Releases |-> 0]
    /\ dlMismatched = {}
    /\ dlResult = NoDownload

\* One iteration of the loop of Saver.Save, with the call of
\* Downloader.Download (fetchMetadata, findVersion, downloadTarball) in it.
DlIterate ==
    /\ dlPc = "run"
    /\ dlI <= Len(dlSlice)
    /\ LET spec == dlSlice[dlI]
       IN  IF AlreadySeen(dlSeen, spec)
           THEN /\ dlI' = dlI + 1
                /\ UNCHANGED <<dlSlice, dlSeen, dlTarballs, dlMetadata, dlPc, dlCalls,
                               dlFetched, dlMismatched, dlResult>>
           ELSE \E metaErr \in BOOLEAN, statErr \in BOOLEAN, outcome \in TarballOutcomes :
                  LET version == findVersion(spec.Name, spec.Version)
                      found == ~metaErr /\ version /= NoVersion
                      release == [Name |-> spec.Name, Version |-> version]
                      exists == found /\ dlTarballs[release] /= "none"
                      transfers == found /\ ~statErr /\ ~exists
                      failed == ~found \/ statErr \/ (transfers /\ outcome /= "ok")
                      seen == dlSeen \cup {SpecString(spec)}
                  IN  /\ dlSeen' = seen
                      /\ dlCalls' = [dlCalls EXCEPT ![spec] = @ + 1]
                      /\ dlMetadata' = IF metaErr THEN dlMetadata ELSE dlMetadata \cup {spec.Name}
                      /\ dlTarballs' =
                            IF transfers /\ outcome /= "httpErr"
                            THEN [dlTarballs EXCEPT ![release] = IF outcome = "ok" THEN "good" ELSE "bad"]
                            ELSE dlTarballs
                      /\ dlFetched' = IF transfers THEN [dlFetched EXCEPT ![release] = @ + 1] ELSE dlFetched
                      /\ dlMismatched' = IF transfers /\ outcome = "mismatch"
                                         THEN dlMismatched \cup {release}
                                         ELSE dlMismatched
                      /\ dlResult' = IF found THEN [release |-> release, ok |-> ~failed] ELSE NoDownload
                      /\ IF failed
                         THEN /\ dlPc' = "failed"
                              /\ UNCHANGED <<dlSlice, dlI>>
                         ELSE /\ \E deps \in Orderings(dlDeps[release]) :
                                    dlSlice' = dlSlice \o
                                        SelectSeq(deps, LAMBDA d : ~AlreadySeen(seen, d) /\ ~IsAlias(d))
                              /\ dlI' = dlI + 1
                              /\ UNCHANGED dlPc
    /\ UNCHANGED <<dlDeps, dlPackages, dlSaves>>
    /\ UNCHANGED notDlVars

\* The iterator has run past the end of the slice: Save returns nil.
DlFinish ==
    /\ dlPc = "run"
    /\ dlI > Len(dlSlice)
    /\ dlPc' = "done"
    /\ UNCHANGED <<dlDeps, dlPackages, dlSlice, dlI, dlSeen, dlTarballs, dlMetadata, dlSaves,
                   dlCalls, dlFetched, dlMismatched, dlResult>>
    /\ UNCHANGED notDlVars

\* The same packages are saved again into the same storage.
DlSaveAgain ==
    /\ dlPc \in {"done", "failed"}
    /\ dlSaves < MaxSaves
    /\ dlSaves' = dlSaves + 1
    /\ dlSlice' = dlPackages
    /\ dlI' = 1
    /\ dlSeen' = {}
    /\ dlPc' = StartOf(dlPackages)
    /\ dlCalls' = [p \in PackageSpecs \cup DepSpecs |-> 0]
    /\ dlFetched' = [r \in Releases |-> 0]
    /\ dlResult' = NoDownload
    /\ UNCHANGED <<dlDeps, dlPackages, dlTarballs, dlMetadata, dlMismatched>>
    /\ UNCHANGED notDlVars

DlNext ==
    \/ DlIterate
    \/ DlFinish
    \/ DlSaveAgain

DlIdle ==
    /\ dlDeps = [r \in Releases |-> {}]
    /\ dlPackages = <<>>
    /\ dlSlice = <<>>
    /\ dlI = 1
    /\ dlSeen = {}
    /\ dlTarballs = [r \in Releases |-> "none"]
    /\ dlMetadata = {}
    /\ dlPc = "failed"
    /\ dlSaves = 1
    /\ dlCalls = [p \in PackageSpecs \cup DepSpecs |-> 0]
    /\ dlFetched = [r \in Releases |-> 0]
    /\ dlMismatched = {}
    /\ dlResult = NoDownload

-----------------------------------------------------------------------------
(* Python simple index: metadata PUT and GET /{pkg}/                        *)

\* Bound of the simple-index model.
MaxPsRequests == 3

\* A distribution file name is the sequence of its pieces: names and
\* versions, the "-" between them, and the extensions with their dots.
PsFilenames ==
    { <<"pkg", "-", "1.0", ".tar", ".gz">>,
      <<"pkg", "-", "1.0", "-", "py3", ".whl">>,
      <<"pkg", "-", "2.0", ".tar", ".gz">>,
      <<"Pkg", "-", "2.0", ".zip">>,
      <<"lib", "-", "1.0", ".whl">>,
      <<"pkg", ".whl">> }

PsPackages == {"pkg", "Pkg", "lib"}

\* models.binaryExtensions, in the order Version trims them.
trimmedExtensions == <<".bz2", ".gz", ".tar", ".whl", ".zip">>

RECURSIVE TrimExtensions(_, _)
TrimExtensions(fn, i) ==
    IF i > Len(trimmedExtensions) THEN fn
    ELSE TrimExtensions(TrimSuffix(fn, <<trimmedExtensions[i]>>), i + 1)

\* strings.SplitN(s, "-", n)
RECURSIVE SplitN(_, _)
SplitN(s, n) ==
    LET dashes == {i \in 1..Len(s) : s[i] = "-"}
    IN  IF n = 1 \/ dashes = {}
        THEN <<s>>
        ELSE LET i == CHOOSE d \in dashes : \A e \in dashes : d <= e
             IN  <<SubSeq(s, 1, i - 1)>> \o SplitN(SubSeq(s, i + 1, Len(s)), n - 1)

\* SimpleFileEntry.PackageName
PackageName(filename) ==
    LET parts == SplitN(filename, 2)
    IN  IF Len(parts) < 2 THEN filename ELSE parts[1]

\* SimpleFileEntry.Version
Version(filename) ==
    LET parts == SplitN(TrimExtensions(filename, 1), 3)
    IN  IF Len(parts) < 2 THEN <<>> ELSE parts[2]

\* normalizeName: lower case, "_" and "." become "-".
normalizeName(name) == IF name = "Pkg" THEN "pkg" ELSE name

NormalizedPieces(name) == [i \in 1..Len(name) |-> normalizeName(name[i])]

\* DB.buildPackageKey of the file's PackageName and Version.
buildPackageKey(filename) ==
    <<"python", NormalizedPieces(PackageName(filename)), Version(filename)>>

\* DB.PutPackageVersion: store.Put(ctx, key, -1, file)
PutPackageVersion(kv, filename) ==
    LET key == buildPackageKey(filename)
    IN  {r \in kv : r.key /= key} \cup {[key |-> key, file |-> filename]}

\* DB.GetPackage: the files of the records under /python/{name}/.
GetPackageFiles(kv, packageName) ==
    {r.file : r \in {x \in kv : x.key[2] = <<normalizeName(packageName)>>}}

NoIndex == [pkg |-> "", status |-> 0, files |-> {}, put |-> {}]

PsInit ==
    /\ psKV = {}
    /\ psStorage = {}
    /\ psPut = {}
    /\ psIndex = NoIndex
    /\ psStatus = 0
    /\ psCount = 0

\* Handler.Put of a path ending in .json: the body is the file's entry.
PsPutMetadata ==
    /\ psCount < MaxPsRequests
    /\ psCount' = psCount + 1
    /\ \E filename \in PsFilenames, decodeErr \in BOOLEAN, kvErr \in BOOLEAN :
         IF decodeErr \/ PackageName(filename) = <<>> \/ Version(filename) = <<>>
         THEN /\ psStatus' = 400
              /\ UNCHANGED <<psKV, psPut>>
         ELSE IF kvErr
         THEN /\ psStatus' = 500
              /\ UNCHANGED <<psKV, psPut>>
         ELSE /\ psStatus' = 200
              /\ psKV' = PutPackageVersion(psKV, filename)
              /\ psPut' = psPut \cup {filename}
    /\ UNCHANGED <<psStorage, psIndex>>
    /\ UNCHANGED notPsVars

\* Handler.Put of any other path: the body is the distribution file.
PsPutFile ==
    /\ psCount < MaxPsRequests
    /\ psCount' = psCount + 1
    /\ \E filename \in PsFilenames, putErr \in BOOLEAN :
         IF putErr
         THEN /\ psStatus' = 500
              /\ UNCHANGED psStorage
         ELSE /\ psStatus' = 201
              /\ psStorage' = psStorage \cup {filename}
    /\ UNCHANGED <<psKV, psPut, psIndex>>
    /\ UNCHANGED notPsVars

\* Handler.getPackage: GET /{pkg}/
PsGetPackage ==
    /\ \E packageName \in PsPackages, kvErr \in BOOLEAN :
         LET files == GetPackageFiles(psKV, packageName)
             put == {f \in psPut : NormalizedPieces(PackageName(f)) = <<normalizeName(packageName)>>}
         IN  psIndex' = IF kvErr THEN [pkg |-> packageName, status |-> 500, files |-> {}, put |-> put]
                        ELSE IF files = {} THEN [pkg |-> packageName, status |-> 404, files |-> {}, put |-> put]
                        ELSE [pkg |-> packageName, status |-> 200, files |-> files, put |-> put]
    /\ UNCHANGED <<psKV, psStorage, psPut, psStatus, psCount>>
    /\ UNCHANGED notPsVars

PsNext ==
    \/ PsPutMetadata
    \/ PsPutFile
    \/ PsGetPackage

PsIdle == PsInit

\* The state of the logged storage when a specification leaves it out.
LogIdle == LogInit

NixInit ==
    /\ privateKey \in {NoKey, ServerKey}
    /\ nixKV = [p \in UrlPaths |-> <<>>]
    /\ nixResp = NoResp
    /\ nixCount = 0

\* Handler.ServeHTTP with method PUT: Handler.Put.
NarinfoPut ==
    /\ nixCount < MaxNixRequests
    /\ \E urlPath \in UrlPaths, body \in Bodies, fault \in Faults :
         LET status == PutStatus(privateKey, urlPath, body, fault = "sign", fault = "kv")
         IN  /\ nixKV' = IF status = 201
                         THEN PutNarInfo(nixKV, urlPath, PutSigned(privateKey, Parse(body)))
                         ELSE nixKV
             /\ nixResp' = [method |-> "PUT", path |-> urlPath, body |-> body,
                            status |-> status, out |-> <<>>]
    /\ nixCount' = nixCount + 1
    /\ UNCHANGED privateKey
    /\ UNCHANGED notNixVars

\* Handler.ServeHTTP with method GET or HEAD: Handler.Get.
NarinfoGet ==
    /\ nixCount < MaxNixRequests
    /\ \E urlPath \in UrlPaths, method \in {"GET", "HEAD"}, fault \in Faults \ {"sign"} :
         LET status == GetStatus(nixKV, urlPath, fault = "kv")
         IN  nixResp' = [method |-> method, path |-> urlPath, body |-> <<>>,
                         status |-> status,
                         out |-> IF status = 200 THEN GetOutput(nixKV, urlPath) ELSE <<>>]
    /\ nixCount' = nixCount + 1
    /\ UNCHANGED <<privateKey, nixKV>>
    /\ UNCHANGED notNixVars

\* Handler.ServeHTTP with any other method: 405.
NarinfoMethodNotAllowed ==
    /\ nixCount < MaxNixRequests
    /\ \E urlPath \in UrlPaths, method \in {"POST", "DELETE"} :
         nixResp' = [method |-> method, path |-> urlPath, body |-> <<>>,
                     status |-> 405, out |-> <<>>]
    /\ nixCount' = nixCount + 1
    /\ UNCHANGED <<privateKey, nixKV>>
    /\ UNCHANGED notNixVars

\* The body http.Error sends with an error status, as the handler builds it:
\* the literal text of the message, and the values formatted into it.
ErrorBody(resp) ==
    IF resp.status = 405 THEN <<[lit |-> "method "], [arg |-> resp.method], [lit |-> " not allowed"]>>
    ELSE IF resp.status = 404 THEN <<[arg |-> resp.path], [lit |-> " not found"]>>
    ELSE IF resp.status = 400 /\ ~ParseOK(resp.body) THEN <<[lit |-> "bad request"]>>
    ELSE IF resp.status = 400
         THEN <<[lit |-> "URL hash part "], [arg |-> expectedHashPart(resp.path)],
                [lit |-> " does not match store path "], [arg |-> Parse(resp.body).StorePath]>>
    ELSE IF resp.status = 500 THEN <<[lit |-> "internal server error"]>>
    ELSE <<>>

NixNext == NarinfoPut \/ NarinfoGet \/ NarinfoMethodNotAllowed

\* The state of a subsystem that a specification leaves out.
NixIdle == privateKey = NoKey /\ nixKV = [p \in UrlPaths |-> <<>>] /\ nixResp = NoResp /\ nixCount = 0
AuthIdle == authConfig = NilConfig /\ authResp = NoAuthResp

\* Each specification runs one subsystem and holds the others idle.
InitNix == NixInit /\ AuthIdle /\ LogIdle /\ AlIdle /\ S3Idle /\ NpmIdle /\ PyIdle /\ LgIdle /\ NcIdle /\ DlIdle /\ PsIdle
InitAuth == AuthInit /\ NixIdle /\ LogIdle /\ AlIdle /\ S3Idle /\ NpmIdle /\ PyIdle /\ LgIdle /\ NcIdle /\ DlIdle /\ PsIdle
InitLog == LogInit /\ NixIdle /\ AuthIdle /\ AlIdle /\ S3Idle /\ NpmIdle /\ PyIdle /\ LgIdle /\ NcIdle /\ DlIdle /\ PsIdle
InitAl == AlInit /\ NixIdle /\ AuthIdle /\ LogIdle /\ S3Idle /\ NpmIdle /\ PyIdle /\ LgIdle /\ NcIdle /\ DlIdle /\ PsIdle
InitS3 == S3Init /\ NixIdle /\ AuthIdle /\ LogIdle /\ AlIdle /\ NpmIdle /\ PyIdle /\ LgIdle /\ NcIdle /\ DlIdle /\ PsIdle
InitNpm == NpmInit /\ NixIdle /\ AuthIdle /\ LogIdle /\ AlIdle /\ S3Idle /\ PyIdle /\ LgIdle /\ NcIdle /\ DlIdle /\ PsIdle
InitPy == PyInit /\ NixIdle /\ AuthIdle /\ LogIdle /\ AlIdle /\ S3Idle /\ NpmIdle /\ LgIdle /\ NcIdle /\ DlIdle /\ PsIdle
InitLg == LgInit /\ NixIdle /\ AuthIdle /\ LogIdle /\ AlIdle /\ S3Idle /\ NpmIdle /\ PyIdle /\ NcIdle /\ DlIdle /\ PsIdle
InitNc == NcInit /\ NixIdle /\ AuthIdle /\ LogIdle /\ AlIdle /\ S3Idle /\ NpmIdle /\ PyIdle /\ LgIdle /\ DlIdle /\ PsIdle
InitDl == DlInit /\ NixIdle /\ AuthIdle /\ LogIdle /\ AlIdle /\ S3Idle /\ NpmIdle /\ PyIdle /\ LgIdle /\ NcIdle /\ PsIdle
InitPs == PsInit /\ NixIdle /\ AuthIdle /\ LogIdle /\ AlIdle /\ S3Idle /\ NpmIdle /\ PyIdle /\ LgIdle /\ NcIdle /\ DlIdle

SpecNix == InitNix /\ [][NixNext]_vars

SpecAuth == InitAuth /\ [][AuthNext]_vars

SpecLog == InitLog /\ [][LogNext]_vars

SpecAl == InitAl /\ [][AlNext]_vars

SpecS3 == InitS3 /\ [][S3Next]_vars

SpecNpm == InitNpm /\ [][NpmNext]_vars

SpecPy == InitPy /\ [][PyNext]_vars

SpecLg == InitLg /\ [][LgNext]_vars

SpecNc == InitNc /\ [][NcNext]_vars

SpecDl == InitDl /\ [][DlNext]_vars

SpecPs == InitPs /\ [][PsNext]_vars

\* The logged storage with a caller that invokes shutdown more than once,
\* which ServeCmd.Run does not.
LogNextTwice == LogNext \/ ShutdownAgain
LogNextUpload == LogNext \/ LsCopyFails
SpecLogUpload == InitLog /\ [][LogNextUpload]_vars

LogNextDelete == LogNext \/ LsSendDelete
SpecLogDelete == InitLog /\ [][LogNextDelete]_vars

SpecLogTwice == InitLog /\ [][LogNextTwice]_vars

\* The consumer goroutine keeps running: it is never starved by the
\* scheduler; and the timer of shutdown's select ticks.
FairSpecLog ==
    SpecLog /\ WF_vars(Consume) /\ WF_vars(ConsumerExit) /\ WF_vars(ShutdownTimeout)

-----------------------------------------------------------------------------
(* Properties of the narinfo handler, under SpecNix.                        *)

\* The last element of a slash-separated path.
LastElement(path) ==
    LET parts == Split(StripTrailingSeparators(path), "/")
    IN  parts[Len(parts)]

\* The hash part a narinfo URL names: its last element without ".narinfo".
UrlHashPart(urlPath) ==
    LET e == LastElement(urlPath)
    IN  IF HasSuffix(e, NarinfoSuffix) THEN SubSeq(e, 1, Len(e) - Len(NarinfoSuffix)) ELSE e

\* The hash part of a store path: its last element before the first '-'.
StoreHashPart(storePath) ==
    LET e == LastElement(storePath)
        dashes == {i \in 1..Len(e) : e[i] = "-"}
    IN  SubSeq(e, 1, Len(e) - Cardinality({i \in 1..Len(e) : \E d \in dashes : d <= i}))

\* A step that is a narinfo PUT.
IsPutStep == nixCount' = nixCount + 1 /\ nixResp'.method = "PUT"

\* C1: a narinfo PUT answers 201 (stored) only if its body parses and the
\* hash part of the URL equals the hash part of the body's StorePath; a PUT
\* whose body parses but whose hash parts differ answers 400 and leaves the
\* KV store as it was.
C1_HashPartIdentity ==
    [][IsPutStep =>
         /\ nixResp'.status = 201 =>
              /\ ParseOK(nixResp'.body)
              /\ UrlHashPart(nixResp'.path) = StoreHashPart(Parse(nixResp'.body).StorePath)
         /\ (/\ ParseOK(nixResp'.body)
             /\ UrlHashPart(nixResp'.path) /= StoreHashPart(Parse(nixResp'.body).StorePath))
            => (nixResp'.status = 400 /\ nixKV' = nixKV)
      ]_vars

\* C1 witness: a PUT with differing hash parts was refused with 400 after an
\* earlier PUT had stored a narinfo.
C1_Witness ==
    /\ nixResp.method = "PUT"
    /\ nixResp.status = 400
    /\ ParseOK(nixResp.body)
    /\ UrlHashPart(nixResp.path) /= StoreHashPart(Parse(nixResp.body).StorePath)
    /\ \E p \in UrlPaths : nixKV[p] /= <<>>

\* C9: with a signing key configured, after a PUT answered 201 the stored
\* narinfo holds the uploaded signatures, unchanged and in order, followed by
\* one signature that verifies against the server key over the fingerprint;
\* and a GET that answers 200 carries a Sig line that verifies against the
\* server key over the fingerprint of the narinfo it returns.
C9_SignaturesKeptAndServerSigned ==
    privateKey = ServerKey =>
      /\ (nixResp.method = "PUT" /\ nixResp.status = 201) =>
           LET uploaded == Parse(nixResp.body)
               stored   == Parse(nixKV[nixResp.path])
               n        == Len(uploaded.Signatures)
           IN  /\ Len(stored.Signatures) = n + 1
               /\ SubSeq(stored.Signatures, 1, n) = uploaded.Signatures
               /\ Fingerprint(stored) = Fingerprint(uploaded)
               /\ Verify(ServerKey, Fingerprint(uploaded), stored.Signatures[n + 1])
      /\ (nixResp.method = "GET" /\ nixResp.status = 200) =>
           \E i \in 1..Len(nixResp.out) :
               /\ nixResp.out[i].k = "Sig"
               /\ ParseSignatureOK(nixResp.out[i].v)
               /\ Verify(ServerKey, Fingerprint(Parse(nixResp.out)),
                         ParseSignature(nixResp.out[i].v))

\* C9 witness: a GET returned a narinfo that was uploaded with two signatures
\* and now carries three.
C9_Witness ==
    /\ privateKey = ServerKey
    /\ nixResp.method = "GET"
    /\ nixResp.status = 200
    /\ Len(Parse(nixResp.out).Signatures) = 3

-----------------------------------------------------------------------------
(* Properties of the authentication middleware, under SpecAuth.             *)

\* The middleware has served a request; it handed it on to the adapter.
Served == authResp.method /= ""
PassedOn == Served /\ authResp.status = 0

WriteMethods == {"PUT", "POST", "DELETE"}

\* The allowlist holds a key with this permission; it holds only such keys.
SomeKeyWith(config, perm) ==
    \E i \in 1..Len(config.Keys) : config.Keys[i].Permission = perm
OnlyKeysWith(config, perm) ==
    /\ Len(config.Keys) > 0
    /\ \A i \in 1..Len(config.Keys) : config.Keys[i].Permission = perm

\* The request carries a well-formed token, signed by the private key of an
\* allowlisted key, that has not expired.
CarriesValidToken(config, resp) ==
    /\ resp.header.present
    /\ resp.header.token.wellFormed
    /\ \E i \in 1..Len(config.Keys) :
           resp.header.token.signer = config.Keys[i].PublicKey.id
    /\ resp.header.token.hasExp => resp.now < resp.header.token.exp

\* C3: when the allowlist holds a key with permission r, a request of any
\* method is passed on only if it carries a valid, unexpired token signed by
\* an allowlisted key, and a request without one is answered 401.
C3_ReadKeyClosesReads ==
    (Served /\ SomeKeyWith(authConfig, "r")) =>
        /\ authResp.status = 0 => CarriesValidToken(authConfig, authResp)
        /\ ~CarriesValidToken(authConfig, authResp) => authResp.status = 401

\* C3 witness: a GET without a token was answered 401, the allowlist holding
\* a key with permission r.
C3_Witness ==
    /\ SomeKeyWith(authConfig, "r")
    /\ authResp.method = "GET"
    /\ ~authResp.header.present
    /\ authResp.status = 401

\* C4: when the allowlist holds only keys with permission w, GET and HEAD
\* are passed on whatever they carry, and a PUT, POST or DELETE is passed on
\* only with a valid token and answered 401 without one.
C4_WriteKeysLeaveReadsOpen ==
    (Served /\ OnlyKeysWith(authConfig, "w")) =>
        /\ authResp.method \notin WriteMethods => authResp.status = 0
        /\ authResp.method \in WriteMethods =>
             /\ authResp.status = 0 => CarriesValidToken(authConfig, authResp)
             /\ ~CarriesValidToken(authConfig, authResp) => authResp.status = 401

\* C4 witness: with only w keys, a DELETE without a token was answered 401.
C4_Witness ==
    /\ OnlyKeysWith(authConfig, "w")
    /\ authResp.method = "DELETE"
    /\ ~authResp.header.present
    /\ authResp.status = 401

\* The request carries a token CreateJWT made for key k while it is fresh.
CarriesFreshTokenOf(k, resp) ==
    /\ resp.header.present
    /\ \E t \in 0..resp.now :
          /\ resp.now < t + TokenLifetime
          /\ resp.header.token = CreateJWT(k, t)

\* Every allowlist entry of key k has this permission, and there is one.
KeyHasOnly(config, k, perm) ==
    /\ \E i \in 1..Len(config.Keys) : config.Keys[i].PublicKey = k
    /\ \A i \in 1..Len(config.Keys) :
          config.Keys[i].PublicKey = k => config.Keys[i].Permission = perm

\* The allowlist of the denial scenario: K1 with r, K2 with w.
ScenarioConfig == LoadAuthConfig(<<EntryLine("r", K1), EntryLine("w", K2)>>)

\* C5: a fresh token of a key that is allowlisted with permission r gets a
\* read passed on and a PUT, POST or DELETE answered 403. With K1 (r) and
\* K2 (w): GET with K1's token is passed on, PUT with K1's token is answered
\* 403, PUT with K2's token is passed on, a request without token gets 401.
C5_ReadKeyDeniedWrites ==
    Served =>
      /\ \A k \in {K1, K2} :
           (KeyHasOnly(authConfig, k, "r") /\ CarriesFreshTokenOf(k, authResp)) =>
               authResp.status = IF authResp.method \in WriteMethods THEN 403 ELSE 0
      /\ authConfig = ScenarioConfig =>
           /\ CarriesFreshTokenOf(K1, authResp) =>
                authResp.status = IF authResp.method \in WriteMethods THEN 403 ELSE 0
           /\ CarriesFreshTokenOf(K2, authResp) => authResp.status = 0
           /\ ~authResp.header.present => authResp.status = 401

\* C5 witness: in the scenario, a PUT with K1's fresh token was answered 403.
C5_Witness ==
    /\ authConfig = ScenarioConfig
    /\ authResp.method = "PUT"
    /\ CarriesFreshTokenOf(K1, authResp)
    /\ authResp.status = 403

\* The request needed a token and its token was accepted as authentic: it
\* was passed on, or refused only for its key's permission.
NeedsToken(config, method) ==
    /\ ~config.nil
    /\ Len(config.Keys) > 0
    /\ method \in WriteMethods \/ SomeKeyWith(config, "r")
TokenAccepted ==
    /\ Served
    /\ NeedsToken(authConfig, authResp.method)
    /\ authResp.status \in {0, 403}

\* C6 as stated: an accepted token names RS256 or ES256 as its algorithm.
C6_OnlyRS256AndES256 ==
    TokenAccepted => authResp.header.token.alg \in {"RS256", "ES256"}

\* C6 amended: an accepted token names an RSA PKCS#1 v1.5 algorithm (RS256,
\* RS384, RS512) and is signed by an allowlisted RSA key, or names an ECDSA
\* algorithm (ES256, ES384, ES512) and is signed by an allowlisted ECDSA key;
\* tokens naming HS*, PS*, EdDSA, none or an unknown algorithm are answered 401.
C6_OnlyRSAAndECDSAFamilies ==
    LET token == authResp.header.token
    IN  /\ TokenAccepted =>
             \E i \in 1..Len(authConfig.Keys) :
                 /\ token.signer = authConfig.Keys[i].PublicKey.id
                 /\ \/ /\ token.alg \in {"RS256", "RS384", "RS512"}
                       /\ authConfig.Keys[i].PublicKey.type = "ssh-rsa"
                    \/ /\ token.alg \in {"ES256", "ES384", "ES512"}
                       /\ authConfig.Keys[i].PublicKey.type \in
                            {"ecdsa-sha2-nistp256", "ecdsa-sha2-nistp384", "ecdsa-sha2-nistp521"}
        /\ (/\ Served
            /\ NeedsToken(authConfig, authResp.method)
            /\ token.alg \notin {"RS256", "RS384", "RS512", "ES256", "ES384", "ES512"})
           => authResp.status = 401

\* C6 witness: a token naming RS384, signed by an allowlisted RSA key, was
\* accepted on a PUT.
C6_Witness ==
    /\ TokenAccepted
    /\ authResp.method = "PUT"
    /\ authResp.header.token.alg = "RS384"
    /\ authResp.status = 0

\* C7 as stated: an accepted token carries iat and exp, and exp is at most
\* 24 hours after iat.
C7_LifetimeAtMostADay ==
    TokenAccepted =>
        /\ authResp.header.token.hasIat
        /\ authResp.header.token.hasExp
        /\ authResp.header.token.exp <= authResp.header.token.iat + TokenLifetime

-----------------------------------------------------------------------------
(* Properties of the logged storage, under SpecLog and FairSpecLog.         *)

RECURSIVE SumOver(_, _)
SumOver(f, S) ==
    IF S = {} THEN 0
    ELSE LET x == CHOOSE y \in S : TRUE
         IN  f[x] + SumOver(f, S \ {x})

\* The number of events in the channel that equal e.
InChannel(e) == Cardinality({i \in 1..Len(ch) : ch[i] = e})

\* The operations on a file that returned without error and whose access is
\* a read (Stat, Get) or a write (Put).
OperationsReturned(filename, t) ==
    IF t = "write" THEN returnedOk[<<filename, "Put">>]
    ELSE returnedOk[<<filename, "Stat">>] + returnedOk[<<filename, "Get">>]

\* The sum, over the days, of the versions of the access-log keys of a file
\* for reads ("r") or writes ("w").
VersionsRecorded(filename, t) ==
    SumOver([d \in Days |->
                kvVersion[<<"accesslog", filename, d, IF t = "write" THEN "w" ELSE "r">>]],
            Days)

\* C2 as stated: every Stat, Get or Put that returned without error has its
\* one event still in the channel, or shows as exactly one version increment
\* of an access-log key of that file and operation.
C2_EveryOperationIncrementsAVersion ==
    \A e \in Events :
        OperationsReturned(e.Filename, e.Type) = InChannel(e) + VersionsRecorded(e.Filename, e.Type)

\* The events of the operations returned so far are in the channel or were
\* consumed, one each; a consumed event shows as one version increment of a
\* key of its file and operation unless its KV Put failed, which shows as
\* one count of the error metric.
C2_Accounting ==
    /\ \A e \in Events :
          /\ OperationsReturned(e.Filename, e.Type) = InChannel(e) + consumed[e]
          /\ VersionsRecorded(e.Filename, e.Type) = consumed[e] - putFailed[e]
    /\ accessLogErrors = SumOver(putFailed, Events)
    /\ \A k \in AccessLogKeys : k[4] = "d" => kvVersion[k] = 0

\* A step that consumes an event changes at most one key, a key of the day
\* the event is consumed on, and raises its version by one.
C2_ConsumeStep ==
    consumed' /= consumed =>
        \A k \in AccessLogKeys :
            kvVersion'[k] /= kvVersion[k] =>
                /\ k[3] = today
                /\ kvVersion'[k] = kvVersion[k] + 1
                /\ \A j \in AccessLogKeys \ {k} : kvVersion'[j] = kvVersion[j]

\* C2 amended: for each Stat, Get or Put that returns without error exactly
\* one event for that file and operation is enqueued; while the process runs
\* it is eventually consumed, once, and the consumer then Puts the key of the
\* file, the day of consumption and r (Stat, Get) or w (Put): the key's
\* version rises by one when that Put succeeds, and the error metric rises by
\* one when it fails.
C2_OneEventPerOperation ==
    /\ []C2_Accounting
    /\ [][C2_ConsumeStep]_vars
    /\ \A e \in Events : \A n \in 1..MaxLogOps :
          (OperationsReturned(e.Filename, e.Type) >= n) ~> (consumed[e] >= n \/ exited)

\* C2 witness: a Put was consumed after midnight and raised the version of
\* the write key of the new day, and another event's KV Put failed.
C2_Witness ==
    \E f \in Files :
        /\ returnedOk[<<f, "Put">>] = 1
        /\ consumed[newEvent(f, "write")] = 1
        /\ kvVersion[<<"accesslog", f, 1, "w">>] = 1
        /\ accessLogErrors = 1

\* C10 as stated: an operation that found the channel full stays blocked
\* until the consumer makes room and its event is enqueued; its event is
\* never dropped.
C10_FullChannelBlocksNoEventDropped ==
    \A p \in Procs : reqs[p].wasBlocked => reqs[p].pc = "blocked"

\* C11 (what shutdown has done when it returns): shutdown has closed the
\* channel before it waits; when it has returned success the consumer has
\* left its loop, the channel is empty and every event of a returned
\* operation was consumed; it returns only out of its wait.
C11_ShutdownState ==
    /\ shutdownState /= "none" => closed
    /\ shutdownState = "ok" =>
          /\ consumerDone
          /\ ch = <<>>
          /\ \A e \in Events : OperationsReturned(e.Filename, e.Type) = consumed[e]

C11_ShutdownStep ==
    (shutdownState' /= shutdownState) =>
        \/ shutdownState = "none" /\ shutdownState' = "waiting" /\ closed'
        \/ shutdownState = "waiting" /\ shutdownState' = "ok" /\ consumerDone /\ ch = <<>>
        \/ shutdownState = "waiting" /\ shutdownState' = "timeout"

\* C11: shutdown(timeout) closes the event channel and then blocks; it
\* returns success only once the consumer has drained the channel, otherwise
\* a timeout error when the timer ticks; and once called it does return.
C11_ShutdownDrainsOrTimesOut ==
    /\ []C11_ShutdownState
    /\ [][C11_ShutdownStep]_vars
    /\ (shutdownState = "waiting") ~> (shutdownState \in {"ok", "timeout"})

\* C11 witness: shutdown returned success and an event was consumed.
C11_Witness ==
    /\ shutdownState = "ok"
    /\ \E e \in Events : consumed[e] >= 1

\* C12 as stated: a further call of shutdown on the same instance does not
\* fault the process.
C12_SecondShutdownDoesNotFault == ~shutdownFault

-----------------------------------------------------------------------------
(* Claims about the access log and its counters                             *)

\* C13: when several goroutines Put the same counter key with expected
\* version -1 at once and all return without error, the key's version is
\* exactly the number of those Puts; a version never decreases.
C13_VersionIsNumberOfPuts ==
    \A k \in AccessLogKeys : alKV[k] = alPuts[k].ok

C13_VersionNeverDecreases ==
    \A k \in AccessLogKeys : alKV'[k] >= alKV[k]

ReadsOn(stats, day) ==
    SelectSeq(stats.Reads, LAMBDA e : e.Date = day)

C14_GetStep == UNCHANGED <<alKV, alNow, alProcs, alPuts, alCalls, alRaced>>

C14_StatsMatch ==
    \A day \in Days :
        LET recorded == alPuts[AccessLogKey(alStats.Filename, day, "r")].ok
            entries  == ReadsOn(alStats, day)
        IN  IF recorded = 0
            THEN entries = <<>>
            ELSE entries = <<[Date |-> day, Count |-> recorded]>>

C14_OtherFileStep ==
    \A p \in AlProcs, f \in Files :
        (alProcs[p].pc = "put" /\ alProcs'[p].pc = "idle" /\ alProcs[p].key[2] /= f)
            => AccessLogGet(alKV', f) = AccessLogGet(alKV, f)

C14_OneReadEntryPerDay ==
    /\ [][C14_GetStep => C14_StatsMatch']_vars
    /\ [][C14_OtherFileStep]_vars

C14_Witness ==
    /\ alStats.ok
    /\ alStats.Reads = <<[Date |-> 0, Count |-> 2], [Date |-> 1, Count |-> 1]>>

\* C15: a delete event that the background consumer handles is recorded as
\* a delete entry of the access log, the key with operation d of that file
\* and day, and not as a write entry.
C15_DeleteStep ==
    /\ ch /= <<>>
    /\ Head(ch) \in DeleteEvents
    /\ ch' = Tail(ch)
    /\ kvVersion' /= kvVersion

-----------------------------------------------------------------------------
(* Claims about the blob storage                                            *)

\* C16: once Close on the writer returned by Storage.Put has returned, the
\* bytes are stored: a Stat of that name reports exists with the size
\* written, and a Get returns the bytes written.
C16_CloseBlocksUntilDurable ==
    s3Seen.afterClose =>
        /\ s3Seen.exists
        /\ s3Seen.size = Len(s3Seen.written)
        /\ s3Seen.op = "Get" => s3Seen.content = s3Seen.written

-----------------------------------------------------------------------------
(* Claims about the responses of the adapters                               *)

\* C17: the body of every error response is a literal constant: no value of
\* the request and no error text of a backend is formatted into it.
C17_ErrorBodiesAreStatic ==
    nixResp.status >= 400 =>
        \A i \in 1..Len(ErrorBody(nixResp)) : "lit" \in DOMAIN ErrorBody(nixResp)[i]

\* C18: every successful PUT on a route of an adapter is answered with 201
\* Created.
C18_SuccessfulPutIs201 ==
    (npmResp.method = "PUT" /\ npmResp.status \in 200..299) => npmResp.status = 201

\* C19: the latest dist-tag of the aggregated package document is the value
\* at the child key named latest when that key exists, and the highest
\* semantic version of the package otherwise.
SemVerOf(v) == CHOOSE t \in SemVers : VersionString(t) = v

SemVerLess(a, b) ==
    \/ a[1] < b[1]
    \/ a[1] = b[1] /\ a[2] < b[2]
    \/ a[1] = b[1] /\ a[2] = b[2] /\ a[3] < b[3]

C19_LatestIsTagOrHighestSemver ==
    (npmResp.route = "package" /\ npmResp.status = 200) =>
        IF LatestTag \in npmResp.versions
        THEN npmResp.latest = npmKV[LatestTag].Version
        ELSE \A v \in npmResp.versions :
                ~SemVerLess(SemVerOf(npmResp.latest), SemVerOf(v))

\* C29: every key of the versions map of the aggregated NPM package document
\* equals the version field of the record it maps to; after a push of a
\* package with dist-tags the aggregate has no version entry named after a tag.
C29_VersionKeysAreRecordVersions ==
    (npmResp.route = "package" /\ npmResp.status = 200 /\ ~npmDirect) =>
        \A k \in npmResp.versions : npmKV[k].Version = k

-----------------------------------------------------------------------------
(* Claims about the Python push                                             *)

\* C20: in a push run every metadata .json file is PUT only after the
\* distribution file it describes has been PUT with success: the server
\* never holds pushed metadata of a file it has not received.
C20_MetadataOnlyAfterItsFile ==
    \A i \in 1..Len(Distributions) :
        MetadataOf(Distributions[i]) \in pyServer => Distributions[i] \in pyServer

-----------------------------------------------------------------------------
(* Claims about operations that meet the shutdown of the logged storage     *)

\* C24: no Stat, Get or Put of a LoggedStorage sends on the event channel
\* once shutdown has closed it: an operation in flight at the shutdown, or
\* one that arrives after it, completes without fault.
C24_NoSendAfterClose ==
    \A p \in Procs : reqs[p].pc /= "panicked"

\* C27 as stated: a write is counted only for an upload that completed, so
\* the writes recorded for a file never exceed its Puts whose body copy and
\* Close succeeded.
C27_FailedUploadNotCounted ==
    \A f \in Files :
        VersionsRecorded(f, "write") <= returnedOk[<<f, "Put">>] - copyFailed[f]

\* C27 amended: a write event is enqueued for every Put that returned a
\* writer, before any byte is copied; a copy or Close that fails afterwards
\* changes neither the channel nor any count, so the write stays counted.
C27_WritesFollowReturnedPuts ==
    \A f \in Files :
        returnedOk[<<f, "Put">>] =
            InChannel(newEvent(f, eventTypeWrite)) + consumed[newEvent(f, eventTypeWrite)]

C27_CopyFailureStep ==
    copyFailed' /= copyFailed => UNCHANGED <<ch, kvVersion, consumed, returnedOk>>

C27_WriteCountedAtPut ==
    /\ []C27_WritesFollowReturnedPuts
    /\ [][C27_CopyFailureStep]_vars

C27_Witness ==
    \E f \in Files :
        /\ returnedOk[<<f, "Put">>] = 1
        /\ copyFailed[f] = 1
        /\ VersionsRecorded(f, "write") = 1

-----------------------------------------------------------------------------
(* Claims about the logging middleware                                      *)

\* C22: when a handler panics the middleware logs an error and writes a 500
\* response exactly when the handler has not started its response; it never
\* attempts to write a status once the response has begun.
C22_PanicStep == lgPc = "handler" /\ lgLog' = "error"

C22_No500OnceResponseBegun ==
    [][C22_PanicStep =>
          /\ lgRw'.lateWriteHeader = lgRw.lateWriteHeader
          /\ IF lgRw.wireStarted
             THEN lgRw'.wireStatus = lgRw.wireStatus /\ lgRw'.wireBody = lgRw.wireBody
             ELSE lgRw'.wireStatus = 500 /\ lgRw'.wireBody = <<"internal server error">>]_vars

-----------------------------------------------------------------------------
(* Claims about the keys and records of the narinfo store                   *)

\* C25: a narinfo PUT writes only keys of the Nix part of the metadata
\* store: no key under /npm/, /python/, /accesslog/ or /downloadcounter/ is
\* ever created or overwritten by it.
OtherKeySpaces ==
    { <<"/", "n", "p", "m", "/">>,
      <<"/", "p", "y", "t", "h", "o", "n", "/">>,
      <<"/", "a", "c", "c", "e", "s", "s", "l", "o", "g", "/">>,
      <<"/", "d", "o", "w", "n", "l", "o", "a", "d", "c", "o", "u", "n", "t", "e", "r", "/">> }

C25_NarinfoKeysStayInNixSpace ==
    \A p \in UrlPaths :
        nixKV[p] /= <<>> => \A prefix \in OtherKeySpaces : ~HasPrefix(p, prefix)

\* C30: uploading again a narinfo that already carries a signature by the
\* server key stores it with exactly one signature by that key: repeated
\* PUTs of the same narinfo do not grow its signature list.
C30_OneServerSignatureAfterReupload ==
    (privateKey = ServerKey /\ nixResp.method = "PUT" /\ nixResp.status = 201) =>
        LET stored == Parse(nixKV[nixResp.path])
        IN  Cardinality({i \in 1..Len(stored.Signatures) :
                            Verify(ServerKey, Fingerprint(stored), stored.Signatures[i])}) = 1

\* C23: when several PUTs of the same narinfo path run concurrently, every
\* GET returns not-found or the complete record of exactly one of the PUTs,
\* never a mixture, and the stored record is that of the last writer.
C23_GetReturnsOneRecord ==
    /\ ncGot.status \in {0, 200, 404, 500}
    /\ ncGot.status = 200 =>
          \E i \in 1..Len(ncWritten[ncGot.path]) :
              ncGot.out = NarInfoString(ncWritten[ncGot.path][i])

C23_LastWriterStored ==
    \A p \in UrlPaths :
        IF ncWritten[p] = <<>>
        THEN ncKV[p] = <<>>
        ELSE ncKV[p] = NarInfoString(ncWritten[p][Len(ncWritten[p])])

FairSpecDl == SpecDl /\ WF_vars(DlIterate) /\ WF_vars(DlFinish)

\* C21: the NPM dependency walk terminates on every finite dependency graph,
\* cyclic ones included; the seen set keyed by name@version is checked before
\* a package is processed, so Download is called at most once per
\* name@version, and no release's tarball is transferred twice.
C21_DownloadedAtMostOnce ==
    /\ \A p \in PackageSpecs \cup DepSpecs : dlCalls[p] <= 1
    /\ \A r \in Releases : dlFetched[r] <= 1

C21_WalkTerminates ==
    /\ (dlPc = "run") ~> (dlPc /= "run")
    /\ []C21_DownloadedAtMostOnce

\* A cyclic graph has been walked to the end, and a spec that was appended
\* twice was downloaded once.
C21_Witness ==
    /\ dlPc = "done"
    /\ \E r \in Releases : \E d \in dlDeps[r] :
          /\ findVersion(d.Name, d.Version) = r.Version /\ d.Name = r.Name
          /\ dlCalls[d] = 1
    /\ \E i, j \in 1..Len(dlSlice) : i < j /\ dlSlice[i] = dlSlice[j]

\* C26: a tarball that failed the SRI check is never kept as if it were
\* valid: once Download has failed with a hash mismatch for a release, a
\* later Download of that release succeeds only with a verified tarball.
C26_NoSuccessOnUnverifiedTarball ==
    (dlResult.ok /\ dlResult.release \in dlMismatched)
        => dlTarballs[dlResult.release] = "good"

\* C28: every distribution file whose metadata was PUT for a Python package
\* is listed by GET /{pkg}/; the wheel and the sdist of one version are both
\* listed.
C28_EveryPutFileIsListed ==
    psIndex.status \in {200, 404} => psIndex.put \subseteq psIndex.files

====
